---- MODULE Spec2Model ----
(***************************************************************************)
(* A model of the VEVI EQ editor (vevikils/DYNAMIC-EQ): the band model,    *)
(* the curve engine, the spectrum simulator, the dynamics step of the      *)
(* simulation loop, and the React component state that drives them.        *)
(*                                                                         *)
(* Numbers.  The program computes with IEEE doubles.  The model computes   *)
(* with fixed-point numbers: the integer n stands for the real n / Scale.  *)
(* Products and quotients are rounded to the nearest representable value,  *)
(* symmetrically in the sign, as IEEE rounding is.  log2, 10^x and e^x are *)
(* evaluated by integer algorithms that are accurate to a few units of     *)
(* 1 / Scale.                                                              *)
(***************************************************************************)
EXTENDS Integers, Sequences, FiniteSets, TLC

(***************************************************************************)
(* Fixed-point arithmetic                                                  *)
(***************************************************************************)
Scale == 10^4

Fx(n) == n * Scale

Abs(a) == IF a < 0 THEN -a ELSE a
Sgn(a) == IF a < 0 THEN -1 ELSE 1
Max(a, b) == IF a > b THEN a ELSE b
Min(a, b) == IF a < b THEN a ELSE b

\* a / b for integers (b # 0), rounded to the nearest integer.
RoundDiv(a, b) == Sgn(a) * Sgn(b) * ((Abs(a) + Abs(b) \div 2) \div Abs(b))

\* The fixed-point product a * b / Scale, split so that no intermediate
\* product leaves 32 bits.
MulFx(a, b) ==
  LET x == Abs(a)
      y == Abs(b)
      xh == x \div Scale
      xl == x % Scale
      yh == y \div Scale
      yl == y % Scale
  IN Sgn(a) * Sgn(b) * (xh * yh * Scale + xh * yl + xl * yh + RoundDiv(xl * yl, Scale))

\* The fixed-point quotient a / b (b # 0), computed digit by digit in base
\* 10 so that no intermediate leaves 32 bits (every remainder is below both
\* Abs(b) and Abs(a) * 10^4, and ten times the smaller of them fits).
DivFx(a, b) ==
  LET x == Abs(a)
      y == Abs(b)
      DivDigits[k \in 0 .. 4] ==
        IF k = 0 THEN << x \div y, x % y >>
        ELSE LET p == DivDigits[k - 1]
             IN << p[1] * 10 + (p[2] * 10) \div y, (p[2] * 10) % y >>
      last == DivDigits[4]
  IN Sgn(a) * Sgn(b) * (last[1] + (IF 2 * last[2] >= y THEN 1 ELSE 0))

\* The number of binary digits of x >= 0 (0 for x = 0), x < 2^31.
BitLength(x) == IF x = 0 THEN 0 ELSE 1 + CHOOSE k \in 0 .. 30 : x \div 2^k = 1

\* floor(a * b / c) for a, b >= 0 and 0 < c < 2^30, by binary long
\* multiplication: (tq, tr) is the quotient and remainder of a * 2^i by c,
\* (q, r) those of the sum of the terms taken so far.
MulDiv(a, b, c) ==
  LET MulDivBits[i \in 0 .. 31] ==
        IF i = 0 THEN << b, a \div c, a % c, 0, 0 >>
        ELSE LET p == MulDivBits[i - 1]
                 tq == p[2]
                 tr == p[3]
                 take == p[1] % 2 = 1
                 r1 == IF take THEN p[5] + tr ELSE p[5]
                 q1 == IF take THEN p[4] + tq + (IF r1 >= c THEN 1 ELSE 0) ELSE p[4]
                 r2 == IF r1 >= c THEN r1 - c ELSE r1
             IN << p[1] \div 2, 2 * tq + (IF 2 * tr >= c THEN 1 ELSE 0),
                   (2 * tr) % c, q1, r2 >>
  IN MulDivBits[BitLength(b)][4]

(***************************************************************************)
(* log2, 2^x, 10^x, e^x                                                    *)
(***************************************************************************)
\* Mantissas carry MantBits fractional bits.
MantBits == 20
MantOne == 2^MantBits
HalfWord == 2^10

\* a * b / MantOne for mantissas a, b in [MantOne, 2 * MantOne).
MulMant(a, b) ==
  LET ah == a \div HalfWord
      al == a % HalfWord
      bh == b \div HalfWord
      bl == b % HalfWord
  IN ah * bh + (ah * bl + al * bh) \div HalfWord + (al * bl) \div MantOne

FloorLog2(x) == BitLength(x) - 1

\* The fractional bits of log2 of a mantissa, by repeated squaring.
LogBits == 16
Log2Frac(m, bits) ==
  LET Squares[i \in 0 .. bits] ==
        IF i = 0 THEN << m, 0 >>
        ELSE LET p == Squares[i - 1]
                 sq == MulMant(p[1], p[1])
             IN IF sq >= 2 * MantOne
                THEN << sq \div 2, 2 * p[2] + 1 >>
                ELSE << sq, 2 * p[2] >>
  IN Squares[bits][2]

\* log2 of the integer x >= 1, in units of 2^-LogBits.
Log2Int(x) ==
  LET k == FloorLog2(x)
      m == IF k >= MantBits THEN x \div 2^(k - MantBits) ELSE x * 2^(MantBits - k)
  IN k * 2^LogBits + Log2Frac(m, LogBits)

\* Math.log2 of the fixed-point x > 0.
Log2Fx(x) ==
  LET d == Log2Int(x) - Log2Int(Scale)
  IN Sgn(d) * ((MulDiv(Abs(d), Scale, 2^(LogBits - 1)) + 1) \div 2)

\* log10(2) and log2(e), log2(10) in units of 2^-LogBits.
LOG10_2 == 19728
LOG2_E == 94548
LOG2_10 == 217706

\* Math.log10 of the fixed-point x > 0.
Log10Fx(x) ==
  LET d == Log2Int(x) - Log2Int(Scale)
      l == MulDiv(Abs(d), LOG10_2, 2^(LogBits - 4))
  IN Sgn(d) * ((MulDiv(l, Scale, 2^(LogBits + 3)) + 1) \div 2)

\* 2^(2^-j) as a mantissa, j = 1 .. LogBits.
RootsOfTwo ==
  << 1482910, 1246974, 1143480, 1095000, 1071537, 1059994, 1054270, 1051419,
     1049997, 1049286, 1048931, 1048753, 1048665, 1048620, 1048598, 1048587 >>

\* 2^(f / 2^LogBits) as a mantissa, 0 <= f < 2^LogBits: the product of the
\* roots of two that the bits of f select (bit j is worth 2^-j).
Exp2Frac(f) ==
  LET Roots[i \in 0 .. LogBits] ==
        IF i = 0 THEN << f, MantOne >>
        ELSE LET p == Roots[i - 1]
                 j == LogBits + 1 - i
             IN << p[1] \div 2,
                   IF p[1] % 2 = 1 THEN MulMant(p[2], RootsOfTwo[j]) ELSE p[2] >>
  IN Roots[LogBits][2]

\* 2^(z / 2^LogBits) as a fixed-point number, held at ExpMax beyond it.
ExpMax == 6 * 10^8
Exp2Bits(z) ==
  LET one == 2^LogBits
      n == IF z >= 0 THEN z \div one ELSE -((-z + one - 1) \div one)
      m == Exp2Frac(z - n * one)
      s == MantBits - n
  IN IF n >= 16 THEN ExpMax
     ELSE IF s >= 50 THEN 0
     ELSE IF s >= 30 THEN (MulDiv(m, Scale, 2^29) \div 2^(s - 30) + 1) \div 2
     ELSE Min(ExpMax, (MulDiv(m, 2 * Scale, 2^s) + 1) \div 2)

\* The product of a fixed-point z and a constant c given in units of
\* 2^-LogBits, in units of 2^-LogBits.
ScaleToBits(z, c) == Sgn(z) * MulDiv(Abs(z), c, Scale)

\* Math.pow(10, y) of the fixed-point y.
Pow10Fx(y) == Exp2Bits(ScaleToBits(y, LOG2_10))

\* Math.exp(y) of the fixed-point y.
ExpFx(y) == Exp2Bits(ScaleToBits(y, LOG2_E))

(***************************************************************************)
(* Constants (constants.ts) and the band model (types.ts)                  *)
(***************************************************************************)
MIN_FREQ == 20
MAX_FREQ == 20000
MIN_GAIN == -30
MAX_GAIN == 30
MIN_Q == Scale \div 10
MAX_Q == 10
NUM_FREQUENCY_POINTS == 500
NUM_SPECTRUM_POINTS == 100
MASTER_GAIN_MIN == -12
MASTER_GAIN_MAX == 12

PEAK == "Peak"
LOW_SHELF == "Low-Shelf"
HIGH_SHELF == "High-Shelf"
BandType == {PEAK, LOW_SHELF, HIGH_SHELF}

BandFields ==
  {"id", "type", "frequency", "gain", "q", "enabled", "color", "isDynamic",
   "dynamicRange", "solo"}

DefaultBand(id, type, frequency, color) ==
  [id |-> id, type |-> type, frequency |-> Fx(frequency), gain |-> 0,
   q |-> Fx(4), enabled |-> TRUE, color |-> color, isDynamic |-> FALSE,
   dynamicRange |-> Fx(6), solo |-> FALSE]

DEFAULT_BANDS ==
  << DefaultBand(1, LOW_SHELF, 60, "#ef4444"),
     DefaultBand(2, PEAK, 150, "#f97316"),
     DefaultBand(3, PEAK, 400, "#eab308"),
     DefaultBand(4, PEAK, 1000, "#22c55e"),
     DefaultBand(5, PEAK, 2500, "#06b6d4"),
     DefaultBand(6, PEAK, 6000, "#3b82f6"),
     DefaultBand(7, HIGH_SHELF, 12000, "#a855f7") >>

(***************************************************************************)
(* Inputs.  Every value a user gesture or a random draw can supply is      *)
(* drawn from one of these sets.                                           *)
(***************************************************************************)
\* Positions of the range sliders of the band inspector (EQBandControl).
SliderValues ==
  [frequency |-> {Fx(MIN_FREQ), Fx(1000), Fx(MAX_FREQ)},
   gain |-> {Fx(MIN_GAIN), Fx(12)},
   q |-> {MIN_Q, 15 * (Scale \div 100), Fx(MAX_Q)},
   dynamicRange |-> {0, Fx(12)}]

\* Numbers typed into a number field: below every domain, inside the gain
\* and Q domains, inside the frequency domain, above every domain.
TypedNumbers == {Fx(-50), Fx(5), Fx(50), Fx(25000)}

\* Pointer positions of a drag on the graph, as the frequency and the gain
\* that the scales invert them to.
DragFrequencies == {Fx(5), Fx(1000) + Scale \div 2, Fx(30000)}
DragGains == {Fx(-40), Fx(6) + Scale \div 4, Fx(45)}

\* Positions of the Output and Smooth sliders of the header.
MasterGainValues == {Fx(MASTER_GAIN_MIN), Fx(MASTER_GAIN_MAX)}
SmoothingValues == {0, 95 * (Scale \div 100)}

\* Math.random() draws, in [0, 1).  One call of the spectrum simulator draws
\* once per point; a jitter pattern << r0, r1 >> gives the draw r0 to the
\* points of even index and r1 to those of odd index.
RandomDraws == {0, Scale - 1}
JitterPatterns == RandomDraws \X RandomDraws
RandomAt(jitter, i) == IF i % 2 = 0 THEN jitter[1] ELSE jitter[2]

(***************************************************************************)
(* utils/audioProcessor.ts: the curve engine                               *)
(***************************************************************************)
\* The frequency of sample i (0-based) of a log-spaced grid of numPoints
\* points.  The quotient i / (numPoints - 1) is not rounded on its own.
SampleLogFreq(i, minFreq, maxFreq, numPoints) ==
  LET logMin == Log10Fx(minFreq)
      logMax == Log10Fx(maxFreq)
  IN logMin + RoundDiv((logMax - logMin) * i, numPoints - 1)

SampleFreq(i, minFreq, maxFreq, numPoints) ==
  Pow10Fx(SampleLogFreq(i, minFreq, maxFreq, numPoints))

\* The two grids the application uses, tabulated once.
SpectrumGrid ==
  [i \in 0 .. NUM_SPECTRUM_POINTS - 1 |->
     SampleFreq(i, Fx(MIN_FREQ), Fx(MAX_FREQ), NUM_SPECTRUM_POINTS)]
CurveGrid ==
  [i \in 0 .. NUM_FREQUENCY_POINTS - 1 |->
     SampleFreq(i, Fx(MIN_FREQ), Fx(MAX_FREQ), NUM_FREQUENCY_POINTS)]

\* Math.log2, tabulated for the grid frequencies and for the frequencies a
\* band can take in the model.
GridFreqs ==
  {SpectrumGrid[i] : i \in DOMAIN SpectrumGrid} \cup {CurveGrid[i] : i \in DOMAIN CurveGrid}
BandFreqs ==
  {DEFAULT_BANDS[k].frequency : k \in DOMAIN DEFAULT_BANDS}
    \cup SliderValues.frequency
    \cup {Max(Fx(MIN_FREQ), Min(Fx(MAX_FREQ), f)) : f \in TypedNumbers \cup DragFrequencies}
    \cup {Fx(4000), Fx(250)}
Log2Table ==
  [x \in GridFreqs \cup BandFreqs \cup {DivFx(f, Fx(100)) : f \in GridFreqs} |-> Log2Fx(x)]

\* The grid frequencies and Math.log2 are pure functions: a run holds the
\* tables above in memo, which no step changes, and looks a value up there
\* when the table has it.
VARIABLE memo
Memo == [spectrumGrid |-> SpectrumGrid, curveGrid |-> CurveGrid, log2 |-> Log2Table]

CurrentFreq(i, minFreq, maxFreq, numPoints) ==
  IF /\ minFreq = Fx(MIN_FREQ) /\ maxFreq = Fx(MAX_FREQ) /\ numPoints = NUM_SPECTRUM_POINTS
     /\ i \in DOMAIN memo.spectrumGrid
  THEN memo.spectrumGrid[i]
  ELSE IF /\ minFreq = Fx(MIN_FREQ) /\ maxFreq = Fx(MAX_FREQ)
          /\ numPoints = NUM_FREQUENCY_POINTS /\ i \in DOMAIN memo.curveGrid
  THEN memo.curveGrid[i]
  ELSE SampleFreq(i, minFreq, maxFreq, numPoints)

Log2(x) == IF x \in DOMAIN memo.log2 THEN memo.log2[x] ELSE Log2Fx(x)

\* A peak without the guard for q below 0.2.
calculatePeakBandGainUnguarded(currentFreq, band) ==
  IF band.gain = 0 \/ ~band.enabled THEN 0
  ELSE
    LET q == Max(Scale \div 10, band.q)
        octavesDifference == Abs(Log2(currentFreq) - Log2(band.frequency))
        ratio == DivFx(octavesDifference, DivFx(Scale, q) * 2)
    IN DivFx(band.gain, Scale + MulFx(ratio, ratio))

\* A peak whose width is 1 / q octaves instead of 2 / q.
calculatePeakBandGainNarrow(currentFreq, band) ==
  IF band.gain = 0 \/ ~band.enabled THEN 0
  ELSE
    LET q == Max(Scale \div 10, band.q)
        octavesDifference == Abs(Log2(currentFreq) - Log2(band.frequency))
        ratio == DivFx(octavesDifference, DivFx(Scale, q))
    IN IF q < 2 * (Scale \div 10) THEN 0
       ELSE DivFx(band.gain, Scale + MulFx(ratio, ratio))

\* calculatePeakBandGain: the gain in dB of a PEAK band at currentFreq.
calculatePeakBandGain(currentFreq, band) ==
  IF band.gain = 0 \/ ~band.enabled THEN 0
  ELSE
    LET centerFreq == band.frequency
        q == Max(Scale \div 10, band.q)
        maxGain == band.gain
        logCurrentFreq == Log2(currentFreq)
        logCenterFreq == Log2(centerFreq)
        bandwidthFactor == DivFx(Scale, q)
        octavesDifference == Abs(logCurrentFreq - logCenterFreq)
        spreadFactor == Fx(2)
        ratio == DivFx(octavesDifference, MulFx(bandwidthFactor, spreadFactor))
        attenuation == MulFx(ratio, ratio)
    IN IF q < 2 * (Scale \div 10) THEN 0
       ELSE DivFx(maxGain, Scale + attenuation)

\* calculateShelfBandGain: the gain in dB of a shelf band at currentFreq.
calculateShelfBandGain(currentFreq, band, isLowShelf) ==
  IF band.gain = 0 \/ ~band.enabled THEN 0
  ELSE
    LET cutoffFreq == band.frequency
        maxGain == band.gain
        q == Max(Scale \div 10, band.q)
        visualTransitionWidthOctaves == DivFx(15 * (Scale \div 10), q)
        logCurrentFreq == Log2(currentFreq)
        logCutoffFreq == Log2(cutoffFreq)
        position0 == DivFx(logCurrentFreq - logCutoffFreq, visualTransitionWidthOctaves)
        position == IF isLowShelf THEN -position0 ELSE position0
        normalizedGainFactor == DivFx(Scale, Scale + ExpFx(-position * 3))
    IN MulFx(maxGain, normalizedGainFactor)

\* One band's term of the sum of calculateOverallFrequencyResponse: the
\* loop skips a disabled band, then dispatches on the type.
BandContribution(currentFreq, band) ==
  IF ~band.enabled THEN 0
  ELSE IF band.type = PEAK THEN calculatePeakBandGain(currentFreq, band)
  ELSE IF band.type = LOW_SHELF THEN calculateShelfBandGain(currentFreq, band, TRUE)
  ELSE IF band.type = HIGH_SHELF THEN calculateShelfBandGain(currentFreq, band, FALSE)
  ELSE 0

\* totalGain after the bands k .. Len(bands) have been added, in order.
RECURSIVE TotalGain(_, _, _, _)
TotalGain(bands, k, currentFreq, totalGain) ==
  IF k > Len(bands) THEN totalGain
  ELSE TotalGain(bands, k + 1, currentFreq,
                 totalGain + BandContribution(currentFreq, bands[k]))

\* A curve engine that holds the sum inside the gain domain of a band.
calculateOverallFrequencyResponseClamped(bands, masterGain, minFreq, maxFreq, numPoints) ==
  [p \in 1 .. numPoints |->
     Max(Fx(MIN_GAIN), Min(Fx(MAX_GAIN),
         TotalGain(bands, 1, CurrentFreq(p - 1, minFreq, maxFreq, numPoints), masterGain)))]

\* A curve engine that starts every sum at 0.
calculateOverallFrequencyResponseNoMaster(bands, masterGain, minFreq, maxFreq, numPoints) ==
  [p \in 1 .. numPoints |->
     TotalGain(bands, 1, CurrentFreq(p - 1, minFreq, maxFreq, numPoints), 0)]

\* calculateOverallFrequencyResponse.  Point i of the program's array is
\* element i + 1 of the sequence; the sequence holds the gains, and the
\* frequency of point i is CurrentFreq(i, ...).  The sum is not clamped.
calculateOverallFrequencyResponse(bands, masterGain, minFreq, maxFreq, numPoints) ==
  [p \in 1 .. numPoints |->
     TotalGain(bands, 1, CurrentFreq(p - 1, minFreq, maxFreq, numPoints), masterGain)]

(***************************************************************************)
(* utils/audioProcessor.ts: the spectrum simulator                         *)
(***************************************************************************)
SPECTRUM_FLOOR == -100
SPECTRUM_CEILING == 30

\* The pink-noise floor at currentFreq: -12 - log2(currentFreq / 100) * 1.5.
BaseLevel(currentFreq) ==
  Fx(-12) - MulFx(Log2(DivFx(currentFreq, Fx(100))), 15 * (Scale \div 10))

\* A smoothing whose attack and decay factors are exchanged.
SmoothingAlphaSwapped(smoothing, rising) ==
  LET s == Max(0, Min(98 * (Scale \div 100), smoothing))
      speed == Scale - s
      attackAlpha == Max(5 * (Scale \div 100), MulFx(speed, 9 * (Scale \div 10)))
      decayAlpha == Max(Scale \div 100, MulFx(speed, 2 * (Scale \div 10)))
  IN IF rising THEN decayAlpha ELSE attackAlpha

\* The interpolation factor of the temporal smoothing: the attack factor when
\* the target lies above the previous level, the decay factor otherwise.
SmoothingAlpha(smoothing, rising) ==
  LET s == Max(0, Min(98 * (Scale \div 100), smoothing))
      speed == Scale - s
      attackAlpha == Max(5 * (Scale \div 100), MulFx(speed, 9 * (Scale \div 10)))
      decayAlpha == Max(Scale \div 100, MulFx(speed, 2 * (Scale \div 10)))
  IN IF rising THEN attackAlpha ELSE decayAlpha

\* The level before smoothing: floor, jitter and the EQ curve at the point.
RawTarget(currentFreq, random, eqGainAtFreq) ==
  LET baseLevel == BaseLevel(currentFreq)
      randomOffset == MulFx(random - Scale \div 2, Fx(12))
  IN baseLevel + randomOffset + eqGainAtFreq

\* Step 4 of the loop body: the level after temporal smoothing.  hasPrev is
\* the test previousSpectrum && previousSpectrum[i].
Smoothed(targetGain, hasPrev, prev, smoothing) ==
  IF hasPrev
  THEN prev + MulFx(targetGain - prev, SmoothingAlpha(smoothing, targetGain > prev))
  ELSE targetGain

\* A loop body without its final clamp.
ClampSpectrumOff(targetGain) == targetGain

\* The final clamp of the loop body.
ClampSpectrum(targetGain) ==
  Max(Fx(SPECTRUM_FLOOR), Min(Fx(SPECTRUM_CEILING), targetGain))

\* generateSimulatedSpectrum.  As for the curve, element i + 1 of the result
\* is the gain of point i.  previousSpectrum is the sequence of the previous
\* gains (empty before the first call); jitter supplies the random draws.
generateSimulatedSpectrum(bands, masterGain, minFreq, maxFreq, numPoints, previousSpectrum, smoothing, jitter) ==
  LET eqCurve == calculateOverallFrequencyResponse(bands, masterGain, minFreq, maxFreq, numPoints)
  IN [p \in 1 .. numPoints |->
        LET currentFreq == CurrentFreq(p - 1, minFreq, maxFreq, numPoints)
            targetGain == RawTarget(currentFreq, RandomAt(jitter, p - 1), eqCurve[p])
            hasPrev == p \in DOMAIN previousSpectrum
            prev == IF hasPrev THEN previousSpectrum[p] ELSE 0
        IN ClampSpectrum(Smoothed(targetGain, hasPrev, prev, smoothing))]

(***************************************************************************)
(* App: effective-band resolution and the body of the simulation loop      *)
(***************************************************************************)
\* Resolutions that differ from the useMemo of App: solo looked at before
\* bypass; solo that only narrows the enabled bands; a pass-through that
\* switches every band on.
effectiveBandsSoloFirst(rawBands, bypassOn) ==
  IF \E k \in DOMAIN rawBands : rawBands[k].solo
  THEN [k \in DOMAIN rawBands |-> [rawBands[k] EXCEPT !.enabled = rawBands[k].solo]]
  ELSE IF bypassOn
  THEN [k \in DOMAIN rawBands |-> [rawBands[k] EXCEPT !.enabled = FALSE]]
  ELSE rawBands
effectiveBandsSoloAnd(rawBands, bypassOn) ==
  IF bypassOn
  THEN [k \in DOMAIN rawBands |-> [rawBands[k] EXCEPT !.enabled = FALSE]]
  ELSE IF \E k \in DOMAIN rawBands : rawBands[k].solo
  THEN [k \in DOMAIN rawBands |->
          [rawBands[k] EXCEPT !.enabled = rawBands[k].enabled /\ rawBands[k].solo]]
  ELSE rawBands
effectiveBandsForcedOn(rawBands, bypassOn) ==
  IF bypassOn
  THEN [k \in DOMAIN rawBands |-> [rawBands[k] EXCEPT !.enabled = FALSE]]
  ELSE IF \E k \in DOMAIN rawBands : rawBands[k].solo
  THEN [k \in DOMAIN rawBands |-> [rawBands[k] EXCEPT !.enabled = rawBands[k].solo]]
  ELSE [k \in DOMAIN rawBands |-> [rawBands[k] EXCEPT !.enabled = TRUE]]

\* The useMemo of App: the bands the loop consumes.
effectiveBands(rawBands, bypassOn) ==
  IF bypassOn
  THEN [k \in DOMAIN rawBands |-> [rawBands[k] EXCEPT !.enabled = FALSE]]
  ELSE LET anySolo == \E k \in DOMAIN rawBands : rawBands[k].solo
       IN IF anySolo
          THEN [k \in DOMAIN rawBands |-> [rawBands[k] EXCEPT !.enabled = rawBands[k].solo]]
          ELSE rawBands

effectiveMasterGain(userMasterGain, bypassOn) == IF bypassOn THEN 0 ELSE userMasterGain

\* The spectrum index of a band frequency:
\* max(0, min(N - 1, floor(fraction * N))).
SpectrumIndex(frequency) ==
  LET logMin == Log10Fx(Fx(MIN_FREQ))
      logMax == Log10Fx(Fx(MAX_FREQ))
      logFreq == Log10Fx(frequency)
      fraction == DivFx(logFreq - logMin, logMax - logMin)
  IN Max(0, Min(NUM_SPECTRUM_POINTS - 1, (fraction * NUM_SPECTRUM_POINTS) \div Scale))

\* newSpectrum[index]?.gain || -100: a missing sample and a sample of
\* exactly 0 both give -100.
DynamicsLevel(newSpectrum, index) ==
  IF index + 1 \in DOMAIN newSpectrum /\ newSpectrum[index + 1] # 0
  THEN newSpectrum[index + 1]
  ELSE Fx(-100)

\* band.dynamicRange || 6: a range of exactly 0 gives 6.
DynamicsRange(band) == IF band.dynamicRange # 0 THEN band.dynamicRange ELSE Fx(6)

\* Dynamics whose boost may be pushed below 0.
DynamicBandBoostUnclamped(band, newSpectrum) ==
  IF ~band.enabled \/ ~band.isDynamic THEN band
  ELSE LET level == DynamicsLevel(newSpectrum, SpectrumIndex(band.frequency))
           intensity == Max(0, DivFx(level + Fx(50), Fx(50)))
           range == DynamicsRange(band)
           offset == MulFx(intensity, range)
           dynamicGain == IF band.gain > 0 THEN band.gain - offset
                          ELSE IF band.gain < 0 THEN band.gain - offset
                          ELSE band.gain
       IN [band EXCEPT !.gain = dynamicGain]

\* Dynamics whose cut stops at the lowest gain of the domain.
DynamicBandCutClamped(band, newSpectrum) ==
  IF ~band.enabled \/ ~band.isDynamic THEN band
  ELSE LET level == DynamicsLevel(newSpectrum, SpectrumIndex(band.frequency))
           intensity == Max(0, DivFx(level + Fx(50), Fx(50)))
           range == DynamicsRange(band)
           offset == MulFx(intensity, range)
           dynamicGain == IF band.gain > 0 THEN Max(0, band.gain - offset)
                          ELSE IF band.gain < 0 THEN Max(Fx(MIN_GAIN), band.gain - offset)
                          ELSE band.gain
       IN [band EXCEPT !.gain = dynamicGain]

\* Dynamics that look at isDynamic alone, not at enabled.
DynamicBandAnyEnabled(band, newSpectrum) ==
  IF ~band.isDynamic THEN band
  ELSE LET level == DynamicsLevel(newSpectrum, SpectrumIndex(band.frequency))
           intensity == Max(0, DivFx(level + Fx(50), Fx(50)))
           range == DynamicsRange(band)
           offset == MulFx(intensity, range)
           dynamicGain == IF band.gain > 0 THEN Max(0, band.gain - offset)
                          ELSE IF band.gain < 0 THEN band.gain - offset
                          ELSE band.gain
       IN [band EXCEPT !.gain = dynamicGain]

\* The map callback of step 2 of the loop: one band after dynamics.
DynamicBand(band, newSpectrum) ==
  IF ~band.enabled \/ ~band.isDynamic THEN band
  ELSE LET level == DynamicsLevel(newSpectrum, SpectrumIndex(band.frequency))
           intensity == Max(0, DivFx(level + Fx(50), Fx(50)))
           range == DynamicsRange(band)
           offset == MulFx(intensity, range)
           dynamicGain == IF band.gain > 0 THEN Max(0, band.gain - offset)
                          ELSE IF band.gain < 0 THEN band.gain - offset
                          ELSE band.gain
       IN [band EXCEPT !.gain = dynamicGain]

dynamicBands(effBands, newSpectrum) ==
  [k \in DOMAIN effBands |-> DynamicBand(effBands[k], newSpectrum)]

(***************************************************************************)
(* Slider (number field and range input) and the band patch                *)
(***************************************************************************)
\* The text of a number field: a decimal numeral, the empty text, or a lone
\* minus sign.
NumberText(num) == [kind |-> "number", num |-> num]
EmptyText == [kind |-> "empty", num |-> 0]
MinusText == [kind |-> "minus", num |-> 0]

\* parseFloat and isNaN on such a text.
IsNaNText(text) == text.kind # "number"
parseFloat(text) == text.num

\* Number.prototype.toFixed: the numeral of value rounded to digits decimals.
toFixed(value, digits) ==
  LET unit == Scale \div 10^digits
  IN NumberText(RoundDiv(value, unit) * unit)

\* The props min, max and the label-dependent digits of the Slider of each
\* numeric band field (EQBandControl).
SliderFields == {"frequency", "gain", "q", "dynamicRange"}
SliderMin(field) ==
  CASE field = "frequency" -> Fx(MIN_FREQ)
    [] field = "gain" -> Fx(MIN_GAIN)
    [] field = "q" -> MIN_Q
    [] field = "dynamicRange" -> 0
SliderMax(field) ==
  CASE field = "frequency" -> Fx(MAX_FREQ)
    [] field = "gain" -> Fx(MAX_GAIN)
    [] field = "q" -> Fx(MAX_Q)
    [] field = "dynamicRange" -> Fx(12)
SliderDigits(field) == IF field = "frequency" THEN 0 ELSE 1

\* The value prop of the Slider of a field.
SliderValue(band, field) ==
  IF field = "dynamicRange" THEN DynamicsRange(band) ELSE band[field]

\* What the number field displays: value.toFixed(label === 'Freq' ? 0 : 1).
DisplayedText(band, field) == toFixed(SliderValue(band, field), SliderDigits(field))

Clamp(lo, hi, num) == Max(lo, Min(hi, num))

\* A patch is a partial band: a function from some field names to values.
\* { ...band, ...updatedBand }
MergeBand(band, updatedBand) ==
  [f \in DOMAIN band \cup DOMAIN updatedBand |->
     IF f \in DOMAIN updatedBand THEN updatedBand[f] ELSE band[f]]

\* Updaters that do not look for the id: one merges the patch into every
\* band, one merges it into the first band when no band has the id.
ApplyPatchToAll(prevBands, id, updatedBand) ==
  [k \in DOMAIN prevBands |-> MergeBand(prevBands[k], updatedBand)]
ApplyPatchOrFirst(prevBands, id, updatedBand) ==
  [k \in DOMAIN prevBands |->
     IF prevBands[k].id = id \/ (k = 1 /\ \A j \in DOMAIN prevBands : prevBands[j].id # id)
     THEN MergeBand(prevBands[k], updatedBand) ELSE prevBands[k]]

\* An updater that moves the band it patches to the front of the list.
ApplyPatchMoveFirst(prevBands, id, updatedBand) ==
  LET hit == {k \in DOMAIN prevBands : prevBands[k].id = id}
      others == SelectSeq(prevBands, LAMBDA band : band.id # id)
  IN IF hit = {} THEN prevBands
     ELSE << MergeBand(prevBands[CHOOSE k \in hit : TRUE], updatedBand) >> \o others

\* The updater of handleBandChange.
ApplyPatch(prevBands, id, updatedBand) ==
  [k \in DOMAIN prevBands |->
     IF prevBands[k].id = id THEN MergeBand(prevBands[k], updatedBand) ELSE prevBands[k]]

\* A patch that writes the fields into the band object it finds, so that
\* the array handed to map holds the patched band afterwards.
MappedArrayAssigned(prevBands, id, updatedBand) ==
  [k \in DOMAIN prevBands |->
     IF prevBands[k].id = id THEN MergeBand(prevBands[k], updatedBand) ELSE prevBands[k]]

\* The array handed to map, as its other holders see it after the call: map
\* builds a new array and the spread a new object, nothing is written to
\* prevBands or to a band of it.
MappedArray(prevBands, id, updatedBand) == prevBands


\* The patch { [param]: value }.
FieldPatch(param, value) == [f \in {param} |-> value]

\* Slider.handleChange, handleTextChange and handleBlur, as the patches they
\* pass up (the empty set when onChange is not called).
HandleChangePatches(field, value) == {FieldPatch(field, value)}

HandleTextChangePatches(band, field, text) ==
  LET num == parseFloat(text)
  IN IF ~IsNaNText(text) /\ num >= SliderMin(field) /\ num <= SliderMax(field)
     THEN {FieldPatch(field, num)}
     ELSE IF text = EmptyText \/ text = MinusText
     THEN {FieldPatch(field, SliderValue(band, field))}
     ELSE {}

HandleBlurPatches(band, field, text) ==
  LET num == IF IsNaNText(text) THEN SliderValue(band, field) ELSE parseFloat(text)
  IN {FieldPatch(field, Clamp(SliderMin(field), SliderMax(field), num))}

\* A drag handler without its constraint.
DragPatchUnclamped(newFreq, newGain) == [frequency |-> newFreq, gain |-> newGain]

\* The drag and wheel handlers of the graph, as patches.
DragPatch(newFreq, newGain) ==
  [frequency |-> Clamp(Fx(MIN_FREQ), Fx(MAX_FREQ), newFreq),
   gain |-> Clamp(Fx(MIN_GAIN), Fx(MAX_GAIN), newGain)]

WHEEL_STEP == Scale \div 2
WheelPatch(band, direction) ==
  [q |-> Clamp(MIN_Q, Fx(MAX_Q), band.q + direction * WHEEL_STEP)]

(***************************************************************************)
(* App: the component state                                                *)
(***************************************************************************)
VARIABLES
  bands, masterGain, analyzerSmoothing, showAnalyzer,   \* useState
  frequencyResponseData, spectrumData, selectedBandId, bypass,
  presets, showPresets, currentPresetName,
  prevSpectrumRef, animationFrameRef,                  \* useRef
  pendingFrames,    \* the animation frames requested and not yet run or cancelled
  localStorage,     \* the item stored under PRESETS_STORAGE_KEY
  clock,            \* Date.now()
  dragSubject,      \* the band a d3 drag gesture holds, or NULL
  bandsRef,         \* the identity of the array object that bands is
  presetRefs,       \* for each preset, the identity of the array its bands field is
  mounted,          \* the App component is mounted
  lastOp, lastInput, lastPatch, lastTick,   \* history: the last step, the numbers
                    \* the user supplied to it, its patch, its tick
  editsLeft, ticksLeft   \* the user gestures and the ticks the run may still take

vars ==
  << bands, masterGain, analyzerSmoothing, showAnalyzer, frequencyResponseData,
     spectrumData, selectedBandId, bypass, presets, showPresets,
     currentPresetName, prevSpectrumRef, animationFrameRef, pendingFrames,
     localStorage, clock, dragSubject, bandsRef, presetRefs, mounted, lastOp,
     lastInput, lastPatch, lastTick, editsLeft, ticksLeft, memo >>

\* Length bounds of a run: gestures and ticks of the whole application, the
\* gestures of a run of toggles, the gestures and ticks of a run of the loop,
\* and the last value of the clock.
MaxEdits == 3
MaxTicks == 1
MaxToggles == 4
MaxLoopEdits == 1
MaxLoopTicks == 2
MaxClock == 2

\* null, for selectedBandId and dragSubject.
NULL == 0

\* The values the loop closure captures at a render.
LoopEnv(rawBands, bypassOn, userMasterGain, smoothing) ==
  [bands |-> effectiveBands(rawBands, bypassOn),
   masterGain |-> effectiveMasterGain(userMasterGain, bypassOn),
   smoothing |-> smoothing]

\* The store under PRESETS_STORAGE_KEY.  kind says what getItem does: it
\* throws ("denied"), returns null ("none"), returns the empty string
\* ("blank") or returns a text ("text").  parses says whether JSON.parse
\* accepts the text, falsy whether the value it returns is one that an if
\* takes as false (null, 0, false, ""), and json is that value.
JSONstringify(value) == [kind |-> "text", parses |-> TRUE, falsy |-> FALSE, json |-> value]
JSONparse(item) == item.json

DeniedStore == [kind |-> "denied", parses |-> FALSE, falsy |-> FALSE, json |-> << >>]
NoItem == [kind |-> "none", parses |-> FALSE, falsy |-> FALSE, json |-> << >>]
BlankItem == [kind |-> "blank", parses |-> FALSE, falsy |-> FALSE, json |-> << >>]
BrokenText == [kind |-> "text", parses |-> FALSE, falsy |-> FALSE, json |-> << >>]
NullText == [kind |-> "text", parses |-> TRUE, falsy |-> TRUE, json |-> << >>]

\* The value of the text {"0":"x"}: an object, not an array.
ObjectValue == [k \in {0} |-> "x"]

\* A preset list that an earlier session left in the store.
EarlierPresets ==
  << [id |-> "0", name |-> "Warm",
      bands |-> [DEFAULT_BANDS EXCEPT ![1].gain = Fx(6), ![4].solo = TRUE],
      masterGain |-> Fx(-3)] >>
StoredLists == {<< >>, EarlierPresets}

\* What a start can find in the store: nothing, a store that may not be
\* read, texts that do not parse, texts of values that are no lists, and
\* the texts of preset lists.
Stores ==
  {DeniedStore, NoItem, BlankItem, BrokenText, NullText, JSONstringify(ObjectValue)}
    \cup {JSONstringify(list) : list \in StoredLists}

\* loadPresetsFromLocalStorage(): the value JSON.parse returns for a text
\* that is not empty, and null (isNull) when there is no such text or when
\* getItem or JSON.parse throws.
loadPresetsFromLocalStorage(store) ==
  IF store.kind = "text" /\ store.parses
  THEN [isNull |-> FALSE, falsy |-> store.falsy, value |-> JSONparse(store)]
  ELSE [isNull |-> TRUE, falsy |-> TRUE, value |-> << >>]

\* presets after the mount effect: if (stored) setPresets(stored).
MountedPresets(store) ==
  LET stored == loadPresetsFromLocalStorage(store)
  IN IF ~stored.falsy THEN stored.value ELSE << >>

\* Mount effects whose save effect runs once, with the empty list of the
\* first render.
MountedStoreFirstRun(store) ==
  IF store.kind = "denied" THEN store ELSE JSONstringify(<< >>)

\* The store after the save effect that follows the mount:
\* savePresetsToLocalStorage(presets), whose setItem may throw.
MountedStore(store) ==
  IF store.kind = "denied" THEN store ELSE JSONstringify(MountedPresets(store))

NoInput == [id |-> NULL, values |-> << >>, prevBands |-> << >>]
NoPatch == [id |-> NULL, updatedBand |-> << >>, prevBands |-> << >>]
NoTick == [env |-> << >>, jitter |-> << >>, previousSpectrum |-> << >>, dynamicBands |-> << >>]

\* The state once the first render and the mount effects have run over the
\* store: the loop effect has requested the first frame, the presets of the
\* store are loaded and written back.  The settings are those the editor
\* reaches by the gestures that set them; initShowPresets and initName are
\* the modal and the name typed into it.
InitApplication(initBands, initMasterGain, initSmoothing, initBypass, store, initShowPresets, initName, editBudget, tickBudget) ==
  /\ bands = initBands
  /\ masterGain = initMasterGain
  /\ analyzerSmoothing = initSmoothing
  /\ showAnalyzer = TRUE
  /\ frequencyResponseData = << >>
  /\ spectrumData = << >>
  /\ selectedBandId = NULL
  /\ bypass = initBypass
  /\ presets = MountedPresets(store)
  /\ showPresets = initShowPresets
  /\ currentPresetName = initName
  /\ prevSpectrumRef = << >>
  /\ animationFrameRef = 1
  /\ pendingFrames =
       {[id |-> 1, env |-> LoopEnv(initBands, initBypass, initMasterGain, initSmoothing)]}
  /\ localStorage = MountedStore(store)
  /\ clock = 0
  /\ dragSubject = NULL
  /\ bandsRef = 1
  /\ presetRefs = [k \in DOMAIN MountedPresets(store) |-> k + 1]
  /\ mounted = TRUE
  /\ memo = Memo
  /\ lastOp = "init"
  /\ lastInput = NoInput
  /\ lastPatch = NoPatch
  /\ lastTick = NoTick
  /\ editsLeft = editBudget
  /\ ticksLeft = tickBudget

\* The start over a store that holds the text of a preset list, with the
\* modal closed.
InitState(initBands, initMasterGain, initSmoothing, initBypass, initPresets, editBudget, tickBudget) ==
  InitApplication(initBands, initMasterGain, initSmoothing, initBypass,
                  JSONstringify(initPresets), FALSE, "", editBudget, tickBudget)

InitApp(editBudget, tickBudget) ==
  \E stored \in StoredLists :
    InitState(DEFAULT_BANDS, 0, Scale \div 2, FALSE, stored, editBudget, tickBudget)

Init == InitApp(MaxEdits, MaxTicks)

\* A value parsed from the store is a list of presets, or is not one.
IsList(value) == DOMAIN value = 1 .. Cardinality(DOMAIN value)

\* An identity that no array object held by bands or by a preset has.
FreshRef ==
  CHOOSE n \in 1 .. Len(presetRefs) + 2 :
    n # bandsRef /\ \A k \in DOMAIN presetRefs : presetRefs[k] # n

\* The preset list when the array object that bands is holds contents: a
\* preset whose bands field is that object shows them.
HeldPresets(contents) ==
  IF IsList(presets)
  THEN [k \in DOMAIN presets |->
          IF presetRefs[k] = bandsRef THEN [presets[k] EXCEPT !.bands = contents]
          ELSE presets[k]]
  ELSE presets

\* A cleanup that cancels nothing.
cancelAnimationFrameNone(frames, handle) == frames

\* A cleanup that cancels the frame requested before the one the ref names.
cancelAnimationFrameStale(frames, handle) ==
  IF handle # 0 THEN {fr \in frames : fr.id # handle - 1} ELSE frames

\* The cleanup of the loop effect:
\* if (animationFrameRef.current) cancelAnimationFrame(animationFrameRef.current).
cancelAnimationFrame(frames, handle) ==
  IF handle # 0 THEN {fr \in frames : fr.id # handle} ELSE frames

\* A render whose loop closes over the master gain of the render before.
RenderStaleMasterGain(newBands, newBypass, newMasterGain, newSmoothing, bandsReplaced) ==
  LET oldEnv == LoopEnv(bands, bypass, masterGain, analyzerSmoothing)
      newEnv == LoopEnv(newBands, newBypass, masterGain, newSmoothing)
      changed == \/ bandsReplaced
                 \/ newBypass # bypass
                 \/ newMasterGain # masterGain
                 \/ newEnv.smoothing # oldEnv.smoothing
  IN IF changed
     THEN /\ pendingFrames' =
               cancelAnimationFrame(pendingFrames, animationFrameRef)
                 \cup {[id |-> animationFrameRef + 1, env |-> newEnv]}
          /\ animationFrameRef' = animationFrameRef + 1
     ELSE UNCHANGED << pendingFrames, animationFrameRef >>

\* The render that follows a state update, with the loop effect: when one of
\* its dependencies changed, the cleanup cancels the frame animationFrameRef
\* names and the effect requests a new one that closes over the new values.
Render(newBands, newBypass, newMasterGain, newSmoothing, bandsReplaced) ==
  LET oldEnv == LoopEnv(bands, bypass, masterGain, analyzerSmoothing)
      newEnv == LoopEnv(newBands, newBypass, newMasterGain, newSmoothing)
      changed == \/ bandsReplaced
                 \/ newBypass # bypass
                 \/ newEnv.masterGain # oldEnv.masterGain
                 \/ newEnv.smoothing # oldEnv.smoothing
  IN IF changed
     THEN /\ pendingFrames' =
               cancelAnimationFrame(pendingFrames, animationFrameRef)
                 \cup {[id |-> animationFrameRef + 1, env |-> newEnv]}
          /\ animationFrameRef' = animationFrameRef + 1
     ELSE UNCHANGED << pendingFrames, animationFrameRef >>

\* A gesture whose render empties the retained spectrum.
GestureForgetful(op, input) ==
  /\ mounted
  /\ editsLeft > 0
  /\ editsLeft' = editsLeft - 1
  /\ lastOp' = op
  /\ lastInput' = input
  /\ lastTick' = NoTick
  /\ prevSpectrumRef' = << >>
  /\ UNCHANGED << frequencyResponseData, spectrumData, ticksLeft, mounted, memo >>

\* A user gesture: counted, and it leaves the loop's outputs alone.  input
\* records the numbers the gesture supplies, before any check or clamp.
Gesture(op, input) ==
  /\ mounted
  /\ editsLeft > 0
  /\ editsLeft' = editsLeft - 1
  /\ lastOp' = op
  /\ lastInput' = input
  /\ lastTick' = NoTick
  /\ UNCHANGED << frequencyResponseData, spectrumData, prevSpectrumRef, ticksLeft, mounted,
                  memo >>

\* handleBandChange(id, updatedBand), with the render it causes.
handleBandChange(id, updatedBand) ==
  /\ bands' = ApplyPatch(bands, id, updatedBand)
  /\ lastPatch' = [id |-> id, updatedBand |-> updatedBand, prevBands |-> bands]
  /\ bandsRef' = FreshRef
  /\ presets' = HeldPresets(MappedArray(bands, id, updatedBand))
  /\ Render(bands', bypass, masterGain, analyzerSmoothing, TRUE)
  /\ UNCHANGED << masterGain, analyzerSmoothing, showAnalyzer, bypass, presetRefs,
                  showPresets, currentPresetName, localStorage, clock >>

\* The band the inspector shows: bands.find(b => b.id === selectedBandId).
HasSelectedBand == \E k \in DOMAIN bands : bands[k].id = selectedBandId
selectedBand ==
  bands[CHOOSE k \in DOMAIN bands :
          bands[k].id = selectedBandId /\ \A j \in 1 .. k - 1 : bands[j].id # selectedBandId]

(***************************************************************************)
(* User gestures on the bands                                              *)
(***************************************************************************)
\* The numbers a gesture supplies for fields of the band id.
Input(id, values) == [id |-> id, values |-> values, prevBands |-> bands]
TextInput(id, field, text) ==
  IF IsNaNText(text) THEN NoInput ELSE Input(id, FieldPatch(field, parseFloat(text)))

\* Texts a user can leave in a number field.
TypedTexts == {NumberText(n) : n \in TypedNumbers} \cup {EmptyText, MinusText}

\* Only state updates that do not touch the bands.
NoBandChange ==
  /\ lastPatch' = NoPatch
  /\ UNCHANGED << bands, bandsRef, pendingFrames, animationFrameRef >>

\* A click on a button of the band strip, or on the background of the graph.
SelectBand ==
  \E k \in DOMAIN bands :
    /\ Gesture("SelectBand", NoInput)
    /\ selectedBandId' = bands[k].id
    /\ NoBandChange
    /\ UNCHANGED << masterGain, analyzerSmoothing, showAnalyzer, bypass, presets, presetRefs,
                    showPresets, currentPresetName, localStorage, clock, dragSubject >>

DeselectBand ==
  /\ Gesture("DeselectBand", NoInput)
  /\ selectedBandId' = NULL
  /\ NoBandChange
  /\ UNCHANGED << masterGain, analyzerSmoothing, showAnalyzer, bypass, presets, presetRefs,
                  showPresets, currentPresetName, localStorage, clock, dragSubject >>

\* The Sliders of the inspector exist for the selected band; the Range
\* slider only while the band is dynamic.
SliderShown(field) ==
  /\ HasSelectedBand
  /\ field = "dynamicRange" => selectedBand.isDynamic

\* The patches of a Slider callback reach handleBandChange through
\* handleSliderChange; a callback that does not call onChange changes nothing.
SliderCallback(op, input, patches) ==
  /\ Gesture(op, input)
  /\ IF patches = {}
     THEN /\ NoBandChange
          /\ UNCHANGED << masterGain, analyzerSmoothing, showAnalyzer, bypass, presets, presetRefs,
                          showPresets, currentPresetName, localStorage, clock >>
     ELSE \E patch \in patches : handleBandChange(selectedBand.id, patch)
  /\ UNCHANGED << selectedBandId, dragSubject >>

\* Moving the thumb of a range input.
SliderChange ==
  \E field \in SliderFields : \E value \in SliderValues[field] :
    /\ SliderShown(field)
    /\ SliderCallback("SliderChange", Input(selectedBand.id, FieldPatch(field, value)),
                      HandleChangePatches(field, value))

\* Typing into a number field.
TextChange ==
  \E field \in SliderFields : \E text \in TypedTexts :
    /\ SliderShown(field)
    /\ SliderCallback("TextChange", TextInput(selectedBand.id, field, text),
                      HandleTextChangePatches(selectedBand, field, text))

\* Leaving a number field, with the text it holds: the displayed value or
\* what the user left in it.
Blur ==
  \E field \in SliderFields :
    /\ SliderShown(field)
    /\ \E text \in TypedTexts \cup {DisplayedText(selectedBand, field)} :
         SliderCallback("Blur", TextInput(selectedBand.id, field, text),
                        HandleBlurPatches(selectedBand, field, text))

\* The type select and the On, Dyn and Solo buttons of the inspector.
TypeChange ==
  \E type \in BandType :
    /\ HasSelectedBand
    /\ Gesture("TypeChange", NoInput)
    /\ handleBandChange(selectedBand.id, [type |-> type])
    /\ UNCHANGED << selectedBandId, dragSubject >>

ToggleEnabled ==
  /\ HasSelectedBand
  /\ Gesture("ToggleEnabled", NoInput)
  /\ handleBandChange(selectedBand.id, [enabled |-> ~selectedBand.enabled])
  /\ UNCHANGED << selectedBandId, dragSubject >>

ToggleDynamic ==
  /\ HasSelectedBand
  /\ Gesture("ToggleDynamic", NoInput)
  /\ handleBandChange(selectedBand.id, [isDynamic |-> ~selectedBand.isDynamic])
  /\ UNCHANGED << selectedBandId, dragSubject >>

ToggleSolo ==
  /\ HasSelectedBand
  /\ Gesture("ToggleSolo", NoInput)
  /\ handleBandChange(selectedBand.id, [solo |-> ~selectedBand.solo])
  /\ UNCHANGED << selectedBandId, dragSubject >>

\* The d3 drag of a handle of the graph; handles exist for the bands whose
\* stored enabled flag is set.
DragStart ==
  \E k \in DOMAIN bands :
    /\ bands[k].enabled
    /\ dragSubject = NULL
    /\ Gesture("DragStart", NoInput)
    /\ selectedBandId' = bands[k].id
    /\ dragSubject' = bands[k].id
    /\ NoBandChange
    /\ UNCHANGED << masterGain, analyzerSmoothing, showAnalyzer, bypass, presets, presetRefs,
                    showPresets, currentPresetName, localStorage, clock >>

DragMove ==
  \E newFreq \in DragFrequencies : \E newGain \in DragGains :
    /\ dragSubject # NULL
    /\ Gesture("DragMove", Input(dragSubject, [frequency |-> newFreq, gain |-> newGain]))
    /\ handleBandChange(dragSubject, DragPatch(newFreq, newGain))
    /\ UNCHANGED << selectedBandId, dragSubject >>

DragEnd ==
  /\ dragSubject # NULL
  /\ Gesture("DragEnd", NoInput)
  /\ dragSubject' = NULL
  /\ NoBandChange
  /\ UNCHANGED << masterGain, analyzerSmoothing, showAnalyzer, bypass, presets, presetRefs,
                  showPresets, currentPresetName, localStorage, clock, selectedBandId >>

\* The wheel over a handle: direction is 1 for deltaY < 0, -1 otherwise.
Wheel ==
  \E k \in DOMAIN bands : \E direction \in {1, -1} :
    /\ bands[k].enabled
    /\ Gesture("Wheel", Input(bands[k].id, [q |-> bands[k].q + direction * WHEEL_STEP]))
    /\ handleBandChange(bands[k].id, WheelPatch(bands[k], direction))
    /\ UNCHANGED << selectedBandId, dragSubject >>

(***************************************************************************)
(* User gestures on the header and on the presets                          *)
(***************************************************************************)
\* The Output range input.
SetMasterGain ==
  \E value \in MasterGainValues :
    /\ Gesture("SetMasterGain", NoInput)
    /\ masterGain' = value
    /\ lastPatch' = NoPatch
    /\ Render(bands, bypass, value, analyzerSmoothing, FALSE)
    /\ UNCHANGED << bands, bandsRef, analyzerSmoothing, showAnalyzer, bypass, presets, presetRefs, showPresets,
                    currentPresetName, localStorage, clock, selectedBandId, dragSubject >>

\* The Smooth range input.
SetSmoothing ==
  \E value \in SmoothingValues :
    /\ Gesture("SetSmoothing", NoInput)
    /\ analyzerSmoothing' = value
    /\ lastPatch' = NoPatch
    /\ Render(bands, bypass, masterGain, value, FALSE)
    /\ UNCHANGED << bands, bandsRef, masterGain, showAnalyzer, bypass, presets, presetRefs, showPresets,
                    currentPresetName, localStorage, clock, selectedBandId, dragSubject >>

ToggleAnalyzer ==
  /\ Gesture("ToggleAnalyzer", NoInput)
  /\ showAnalyzer' = ~showAnalyzer
  /\ NoBandChange
  /\ UNCHANGED << masterGain, analyzerSmoothing, bypass, presets, presetRefs, showPresets,
                  currentPresetName, localStorage, clock, selectedBandId, dragSubject >>

ToggleBypass ==
  /\ Gesture("ToggleBypass", NoInput)
  /\ bypass' = ~bypass
  /\ lastPatch' = NoPatch
  /\ Render(bands, ~bypass, masterGain, analyzerSmoothing, FALSE)
  /\ UNCHANGED << bands, bandsRef, masterGain, analyzerSmoothing, showAnalyzer, presets, presetRefs, showPresets,
                  currentPresetName, localStorage, clock, selectedBandId, dragSubject >>

\* A render that throws.  No error boundary encloses App, so React unmounts
\* it and runs the cleanup of the loop effect.
RenderError ==
  /\ mounted
  /\ editsLeft > 0
  /\ editsLeft' = editsLeft - 1
  /\ mounted' = FALSE
  /\ pendingFrames' = cancelAnimationFrame(pendingFrames, animationFrameRef)
  /\ lastOp' = "RenderError"
  /\ lastInput' = NoInput
  /\ lastPatch' = NoPatch
  /\ lastTick' = NoTick
  /\ UNCHANGED << bands, bandsRef, masterGain, analyzerSmoothing, showAnalyzer,
                  frequencyResponseData, spectrumData, selectedBandId, bypass, presets,
                  presetRefs, currentPresetName, prevSpectrumRef, animationFrameRef,
                  localStorage, clock, dragSubject, ticksLeft, memo >>

\* The Presets button of the header and the Close button of the modal.  The
\* open modal renders presets.map(...), which throws when presets is no array.
TogglePresets ==
  IF ~showPresets /\ ~IsList(presets)
  THEN /\ RenderError
       /\ showPresets' = TRUE
  ELSE /\ Gesture("TogglePresets", NoInput)
       /\ showPresets' = ~showPresets
       /\ NoBandChange
       /\ UNCHANGED << masterGain, analyzerSmoothing, showAnalyzer, bypass, presets,
                       presetRefs, currentPresetName, localStorage, clock, selectedBandId,
                       dragSubject >>

PresetNames == {"", "A"}

TypePresetName ==
  \E name \in PresetNames :
    /\ showPresets
    /\ Gesture("TypePresetName", NoInput)
    /\ currentPresetName' = name
    /\ NoBandChange
    /\ UNCHANGED << masterGain, analyzerSmoothing, showAnalyzer, bypass, presets, presetRefs,
                    showPresets, localStorage, clock, selectedBandId, dragSubject >>

\* Date.now().toString(): the digits of the time.
TimeString(t) == ToString(t)

\* The save effect: runs after every render that changed presets.  A
\* setItem that throws is caught and leaves the store as it is.
savePresetsToLocalStorage(list) ==
  IF localStorage.kind = "denied" THEN localStorage ELSE JSONstringify(list)

\* savePreset.  Time does not run backwards; it need not have advanced.
SavePreset ==
  \E now \in clock .. MaxClock :
    /\ showPresets
    /\ Gesture("SavePreset", NoInput)
    /\ clock' = now
    /\ IF currentPresetName = ""
       THEN UNCHANGED << presets, presetRefs, currentPresetName, showPresets,
                         localStorage >>
       ELSE /\ presets' = Append(presets, [id |-> TimeString(now), name |-> currentPresetName,
                                            bands |-> bands, masterGain |-> masterGain])
            /\ presetRefs' = Append(presetRefs, bandsRef)
            /\ currentPresetName' = ""
            /\ showPresets' = FALSE
            /\ localStorage' = savePresetsToLocalStorage(presets')
    /\ NoBandChange
    /\ UNCHANGED << masterGain, analyzerSmoothing, showAnalyzer, bypass,
                    selectedBandId, dragSubject >>

\* What a click on a row hands to loadPreset, with the live values it finds.
LoadInput(preset) ==
  [id |-> NULL, values |-> << >>, prevBands |-> bands, prevMasterGain |-> masterGain,
   preset |-> preset]

\* loadPreset(preset), a click on a row of the modal: three state updates of
\* one event handler, rendered once.  The loop effect runs again when the
\* band array or the effective master gain is a different one.
LoadPreset ==
  \E k \in DOMAIN presets :
    /\ showPresets
    /\ Gesture("LoadPreset", LoadInput(presets[k]))
    /\ bands' = presets[k].bands
    /\ bandsRef' = presetRefs[k]
    /\ masterGain' = presets[k].masterGain
    /\ showPresets' = FALSE
    /\ lastPatch' = NoPatch
    /\ Render(bands', bypass, masterGain', analyzerSmoothing, presetRefs[k] # bandsRef)
    /\ UNCHANGED << analyzerSmoothing, showAnalyzer, bypass, presets, presetRefs,
                    currentPresetName, localStorage, clock, selectedBandId, dragSubject >>

\* The Del button of a row: presets.filter(pr => pr.id !== p.id).
RECURSIVE FilterPresets(_, _)
FilterPresets(list, id) ==
  IF list = << >> THEN << >>
  ELSE IF Head(list).id # id THEN << Head(list) >> \o FilterPresets(Tail(list), id)
  ELSE FilterPresets(Tail(list), id)

\* The array identities of the presets that the filter keeps.
RECURSIVE FilterRefs(_, _, _)
FilterRefs(list, refs, id) ==
  IF list = << >> THEN << >>
  ELSE IF Head(list).id # id
  THEN << Head(refs) >> \o FilterRefs(Tail(list), Tail(refs), id)
  ELSE FilterRefs(Tail(list), Tail(refs), id)

DeletePreset ==
  \E k \in DOMAIN presets :
    /\ showPresets
    /\ Gesture("DeletePreset", NoInput)
    /\ presets' = FilterPresets(presets, presets[k].id)
    /\ presetRefs' = FilterRefs(presets, presetRefs, presets[k].id)
    /\ localStorage' = savePresetsToLocalStorage(presets')
    /\ NoBandChange
    /\ UNCHANGED << masterGain, analyzerSmoothing, showAnalyzer, bypass, showPresets,
                    currentPresetName, clock, selectedBandId, dragSubject >>

\* A tick that writes the gains after dynamics back into the band list.
TickStoring ==
  /\ ticksLeft > 0
  /\ \E fr \in pendingFrames : \E jitter \in JitterPatterns :
       \E newSpectrum \in
            {generateSimulatedSpectrum(fr.env.bands, fr.env.masterGain, Fx(MIN_FREQ),
                                       Fx(MAX_FREQ), NUM_SPECTRUM_POINTS, prevSpectrumRef,
                                       fr.env.smoothing, jitter)} :
         \E dynBands \in {dynamicBands(fr.env.bands, newSpectrum)} :
           \E newCurve \in
                {calculateOverallFrequencyResponse(dynBands, fr.env.masterGain, Fx(MIN_FREQ),
                                                   Fx(MAX_FREQ), NUM_FREQUENCY_POINTS)} :
             /\ ticksLeft' = ticksLeft - 1
             /\ prevSpectrumRef' = newSpectrum
             /\ spectrumData' = newSpectrum
             /\ frequencyResponseData' = newCurve
             /\ animationFrameRef' = animationFrameRef + 1
             /\ pendingFrames' =
                  (pendingFrames \ {fr}) \cup {[id |-> animationFrameRef + 1, env |-> fr.env]}
             /\ lastOp' = "Tick"
             /\ lastInput' = NoInput
             /\ lastPatch' = NoPatch
             /\ lastTick' = [env |-> fr.env, jitter |-> jitter,
                             previousSpectrum |-> prevSpectrumRef, dynamicBands |-> dynBands]
             /\ bands' = dynBands
             /\ UNCHANGED << bandsRef, masterGain, analyzerSmoothing, showAnalyzer,
                             selectedBandId, bypass, presets, presetRefs, showPresets,
                             currentPresetName, localStorage, clock, dragSubject, mounted,
                             editsLeft, memo >>

\* A tick that draws the curve of the bands before dynamics.
TickStaticCurve ==
  /\ ticksLeft > 0
  /\ \E fr \in pendingFrames : \E jitter \in JitterPatterns :
       \E newSpectrum \in
            {generateSimulatedSpectrum(fr.env.bands, fr.env.masterGain, Fx(MIN_FREQ),
                                       Fx(MAX_FREQ), NUM_SPECTRUM_POINTS, prevSpectrumRef,
                                       fr.env.smoothing, jitter)} :
         \E dynBands \in {dynamicBands(fr.env.bands, newSpectrum)} :
           \E newCurve \in
                {calculateOverallFrequencyResponse(fr.env.bands, fr.env.masterGain, Fx(MIN_FREQ),
                                                   Fx(MAX_FREQ), NUM_FREQUENCY_POINTS)} :
             /\ ticksLeft' = ticksLeft - 1
             /\ prevSpectrumRef' = newSpectrum
             /\ spectrumData' = newSpectrum
             /\ frequencyResponseData' = newCurve
             /\ animationFrameRef' = animationFrameRef + 1
             /\ pendingFrames' =
                  (pendingFrames \ {fr}) \cup {[id |-> animationFrameRef + 1, env |-> fr.env]}
             /\ lastOp' = "Tick"
             /\ lastInput' = NoInput
             /\ lastPatch' = NoPatch
             /\ lastTick' = [env |-> fr.env, jitter |-> jitter,
                             previousSpectrum |-> prevSpectrumRef, dynamicBands |-> dynBands]
             /\ UNCHANGED << bands, bandsRef, masterGain, analyzerSmoothing, showAnalyzer,
                             selectedBandId, bypass, presets, presetRefs, showPresets,
                             currentPresetName, localStorage, clock, dragSubject, mounted,
                             editsLeft, memo >>

(***************************************************************************)
(* The simulation loop                                                     *)
(***************************************************************************)
\* One run of loop(), the callback of a pending animation frame: spectrum,
\* dynamics, curve, then the request of the next frame.  The renders its
\* state updates cause leave the dependencies of the loop effect as they are.
Tick ==
  /\ ticksLeft > 0
  /\ \E fr \in pendingFrames : \E jitter \in JitterPatterns :
       \E newSpectrum \in
            {generateSimulatedSpectrum(fr.env.bands, fr.env.masterGain, Fx(MIN_FREQ),
                                       Fx(MAX_FREQ), NUM_SPECTRUM_POINTS, prevSpectrumRef,
                                       fr.env.smoothing, jitter)} :
         \E dynBands \in {dynamicBands(fr.env.bands, newSpectrum)} :
           \E newCurve \in
                {calculateOverallFrequencyResponse(dynBands, fr.env.masterGain, Fx(MIN_FREQ),
                                                   Fx(MAX_FREQ), NUM_FREQUENCY_POINTS)} :
             /\ ticksLeft' = ticksLeft - 1
             /\ prevSpectrumRef' = newSpectrum
             /\ spectrumData' = newSpectrum
             /\ frequencyResponseData' = newCurve
             /\ animationFrameRef' = animationFrameRef + 1
             /\ pendingFrames' =
                  (pendingFrames \ {fr}) \cup {[id |-> animationFrameRef + 1, env |-> fr.env]}
             /\ lastOp' = "Tick"
             /\ lastInput' = NoInput
             /\ lastPatch' = NoPatch
             /\ lastTick' = [env |-> fr.env, jitter |-> jitter,
                             previousSpectrum |-> prevSpectrumRef, dynamicBands |-> dynBands]
             /\ UNCHANGED << bands, bandsRef, masterGain, analyzerSmoothing, showAnalyzer,
                             selectedBandId, bypass, presets, presetRefs, showPresets,
                             currentPresetName, localStorage, clock, dragSubject, mounted,
                             editsLeft, memo >>

\* The teardown of App: React runs the cleanup of the loop effect, and no
\* handler of the component is called again.
Unmount ==
  /\ mounted
  /\ mounted' = FALSE
  /\ pendingFrames' = cancelAnimationFrame(pendingFrames, animationFrameRef)
  /\ lastOp' = "Unmount"
  /\ lastInput' = NoInput
  /\ lastPatch' = NoPatch
  /\ lastTick' = NoTick
  /\ UNCHANGED << bands, bandsRef, masterGain, analyzerSmoothing, showAnalyzer,
                  frequencyResponseData, spectrumData, selectedBandId, bypass, presets,
                  presetRefs, showPresets, currentPresetName, prevSpectrumRef,
                  animationFrameRef, localStorage, clock, dragSubject, editsLeft,
                  ticksLeft, memo >>

\* A start of the application after it was unmounted (a reload of the
\* page): the state of a first render, then the mount effects, which load
\* the presets from the store and save them back, and the loop effect.
Mount ==
  /\ ~mounted
  /\ mounted' = TRUE
  /\ bands' = DEFAULT_BANDS
  /\ bandsRef' = 1
  /\ masterGain' = 0
  /\ analyzerSmoothing' = Scale \div 2
  /\ showAnalyzer' = TRUE
  /\ frequencyResponseData' = << >>
  /\ spectrumData' = << >>
  /\ selectedBandId' = NULL
  /\ bypass' = FALSE
  /\ presets' = MountedPresets(localStorage)
  /\ presetRefs' = [k \in DOMAIN MountedPresets(localStorage) |-> k + 1]
  /\ showPresets' = FALSE
  /\ currentPresetName' = ""
  /\ prevSpectrumRef' = << >>
  /\ animationFrameRef' = 1
  /\ pendingFrames' = {[id |-> 1, env |-> LoopEnv(DEFAULT_BANDS, FALSE, 0, Scale \div 2)]}
  /\ localStorage' = MountedStore(localStorage)
  /\ dragSubject' = NULL
  /\ lastOp' = "Mount"
  /\ lastInput' = NoInput
  /\ lastPatch' = NoPatch
  /\ lastTick' = NoTick
  /\ UNCHANGED << clock, editsLeft, ticksLeft, memo >>

(***************************************************************************)
(* Specifications                                                          *)
(***************************************************************************)
\* The gestures that edit the model: bands, header, presets.
EditNext ==
  \/ SelectBand
  \/ DeselectBand
  \/ SliderChange
  \/ TextChange
  \/ Blur
  \/ TypeChange
  \/ ToggleEnabled
  \/ ToggleDynamic
  \/ ToggleSolo
  \/ DragStart
  \/ DragMove
  \/ DragEnd
  \/ Wheel
  \/ SetMasterGain
  \/ SetSmoothing
  \/ ToggleAnalyzer
  \/ ToggleBypass
  \/ TogglePresets
  \/ TypePresetName
  \/ SavePreset
  \/ LoadPreset
  \/ DeletePreset

\* handleBandChange as the callback it is: called with any id and any patch,
\* also an id that no band has.
PatchIds == {1, 4, 7, 9}
Patches ==
  {<< >>, [gain |-> Fx(12)], [frequency |-> Fx(250), gain |-> Fx(-6)], [enabled |-> FALSE],
   [solo |-> TRUE, isDynamic |-> TRUE], [type |-> HIGH_SHELF], [q |-> MIN_Q]}

PatchCall ==
  \E id \in PatchIds : \E updatedBand \in Patches :
    /\ Gesture("handleBandChange", NoInput)
    /\ handleBandChange(id, updatedBand)
    /\ UNCHANGED << selectedBandId, dragSubject >>

Next == EditNext \/ Tick

Spec == Init /\ [][Next]_vars

\* The editor alone: every gesture, no animation frame runs.
SpecEdit == Init /\ [][EditNext]_vars

\* The patch operation alone, over every id and patch.
SpecPatch == Init /\ [][PatchCall]_vars

\* The buttons that decide the effective bands: selection, On, Solo, Bypass.
ToggleNext == SelectBand \/ ToggleEnabled \/ ToggleSolo \/ ToggleBypass
InitToggle == InitApp(MaxToggles, 0)
SpecToggle == InitToggle /\ [][ToggleNext]_vars

\* Band lists the editor reaches from the default one: a low shelf and a
\* peak at full boost; a soloed boost next to a cut; dynamic bands that
\* boost and cut, one of them switched off.
LoudBands == [DEFAULT_BANDS EXCEPT ![1].gain = Fx(30), ![2].gain = Fx(30)]
SoloBands ==
  [DEFAULT_BANDS EXCEPT ![4].gain = Fx(12), ![4].solo = TRUE, ![4].enabled = FALSE,
                        ![2].gain = Fx(-30)]
DynamicBands ==
  [DEFAULT_BANDS EXCEPT ![4].gain = Fx(12), ![4].isDynamic = TRUE,
                        ![6].gain = Fx(-30), ![6].isDynamic = TRUE, ![6].dynamicRange = Fx(12),
                        ![7].gain = Fx(12), ![7].enabled = FALSE]
LoopBandLists == {DEFAULT_BANDS, LoudBands, SoloBands, DynamicBands}

\* The loop under settings the editor reaches: the state after the gestures
\* that set them, with the frame the last render requested pending.
InitLoop ==
  \E initBands \in LoopBandLists : \E initMasterGain \in MasterGainValues :
    \E initSmoothing \in SmoothingValues : \E initBypass \in BOOLEAN :
      InitState(initBands, initMasterGain, initSmoothing, initBypass, << >>,
                MaxLoopEdits, MaxLoopTicks)

\* The curve engine alone.  Its arguments are lists of one or two of these
\* bands, the default list and the loud list, and a master gain; the grid is
\* the one of the curve or the one of the spectrum.
CurveBands ==
  {[DEFAULT_BANDS[4] EXCEPT !.gain = Fx(12)],
   [DEFAULT_BANDS[1] EXCEPT !.gain = Fx(30)],
   [DEFAULT_BANDS[2] EXCEPT !.gain = Fx(30)],
   [DEFAULT_BANDS[7] EXCEPT !.gain = Fx(-6)],
   [DEFAULT_BANDS[3] EXCEPT !.gain = Fx(12), !.q = MIN_Q],
   [DEFAULT_BANDS[5] EXCEPT !.gain = Fx(12), !.enabled = FALSE],
   [DEFAULT_BANDS[6] EXCEPT !.q = Fx(MAX_Q), !.frequency = Fx(MAX_FREQ)],
   [DEFAULT_BANDS[1] EXCEPT !.q = MIN_Q, !.frequency = Fx(MIN_FREQ)],
   [DEFAULT_BANDS[7] EXCEPT !.q = MIN_Q]}
CurveBandLists ==
  {<< b >> : b \in CurveBands} \cup {<< b, c >> : b \in CurveBands, c \in CurveBands}
    \cup {DEFAULT_BANDS, LoudBands}
CurveMasterGains == {0, Fx(MASTER_GAIN_MAX)}
CurveGrids == {NUM_SPECTRUM_POINTS, NUM_FREQUENCY_POINTS}

InitCurve ==
  \E initBands \in CurveBandLists : \E initMasterGain \in CurveMasterGains :
    InitState(initBands, initMasterGain, Scale \div 2, FALSE, << >>, 0, 0)

\* A call of calculateOverallFrequencyResponse on the bands and the master
\* gain of the state; the result is published as the curve.
ComputeResponse ==
  \E numPoints \in CurveGrids :
    /\ frequencyResponseData' =
         calculateOverallFrequencyResponse(bands, masterGain, Fx(MIN_FREQ), Fx(MAX_FREQ),
                                           numPoints)
    /\ lastOp' = "calculateOverallFrequencyResponse"
    /\ UNCHANGED << bands, bandsRef, masterGain, analyzerSmoothing, showAnalyzer, spectrumData,
                    selectedBandId, bypass, presets, presetRefs, showPresets, currentPresetName,
                    prevSpectrumRef, animationFrameRef, pendingFrames, localStorage, clock,
                    dragSubject, mounted, lastInput, lastPatch, lastTick, editsLeft,
                    ticksLeft, memo >>

SpecCurve == InitCurve /\ [][ComputeResponse]_vars

LoopNext == Tick \/ ToggleBypass
SpecLoop == InitLoop /\ [][LoopNext]_vars

(***************************************************************************)
(* Properties of the band model                                            *)
(***************************************************************************)
\* The band of a list with a given id.
BandById(bandSeq, id) == bandSeq[CHOOSE k \in DOMAIN bandSeq : bandSeq[k].id = id]

\* The domains of the three numeric fields, as lower and upper bound.
FieldDomain ==
  [frequency |-> << Fx(20), Fx(20000) >>,
   gain |-> << Fx(-30), Fx(30) >>,
   q |-> << Scale \div 10, Fx(10) >>]
InDomain(field, num) == FieldDomain[field][1] <= num /\ num <= FieldDomain[field][2]
ClampToDomain(field, num) ==
  IF num < FieldDomain[field][1] THEN FieldDomain[field][1]
  ELSE IF num > FieldDomain[field][2] THEN FieldDomain[field][2]
  ELSE num

BandsInDomain ==
  \A k \in DOMAIN bands : \A field \in DOMAIN FieldDomain : InDomain(field, bands[k][field])

\* The fields of the three domains for which the last gesture supplied a number.
SuppliedFields == DOMAIN lastInput.values \cap DOMAIN FieldDomain

\* C1 as stated: in every reachable state every band has frequency in
\* [20, 20000], gain in [-30, 30] and q in [0.1, 10], and a gesture that
\* supplies a number for one of these fields stores that number clamped into
\* the domain.
C1_AsStated ==
  /\ BandsInDomain
  /\ lastInput # NoInput =>
       \A field \in SuppliedFields :
         BandById(bands, lastInput.id)[field] = ClampToDomain(field, lastInput.values[field])

\* C1, amended: in every reachable state every band has frequency in
\* [20, 20000], gain in [-30, 30] and q in [0.1, 10].  A range slider, a blur
\* of a number field, a drag and a wheel store the number they supply clamped
\* into the domain; a change of a number field stores an in-range number as
\* is and leaves the field as it was when the number is out of range.
C1_DomainKept ==
  /\ BandsInDomain
  /\ lastInput # NoInput =>
       \A field \in SuppliedFields :
         LET num == lastInput.values[field]
             stored == BandById(bands, lastInput.id)[field]
             before == BandById(lastInput.prevBands, lastInput.id)[field]
         IN IF lastOp = "TextChange" /\ ~InDomain(field, num)
            THEN stored = before
            ELSE stored = ClampToDomain(field, num)

\* A blur of the frequency field that held 25000 has stored 20000.
C1_Witness ==
  /\ lastOp = "Blur"
  /\ lastInput # NoInput
  /\ "frequency" \in DOMAIN lastInput.values
  /\ lastInput.values["frequency"] = Fx(25000)
  /\ BandById(bands, lastInput.id).frequency = Fx(20000)

\* The last step was a call of handleBandChange with an id that a band of
\* the list it was applied to has, or has not.
PatchedKnownId ==
  /\ lastOp = "handleBandChange"
  /\ \E k \in DOMAIN lastPatch.prevBands : lastPatch.prevBands[k].id = lastPatch.id
PatchedUnknownId ==
  /\ lastOp = "handleBandChange"
  /\ \A k \in DOMAIN lastPatch.prevBands : lastPatch.prevBands[k].id # lastPatch.id

\* C2: a patch whose id is present yields a list of the same length and
\* order, in which the band with that id has the fields of the patch replaced
\* and every other field unchanged, and every other band is unchanged.
C2_PatchFrame ==
  PatchedKnownId =>
    LET before == lastPatch.prevBands
        patch == lastPatch.updatedBand
    IN /\ DOMAIN bands = DOMAIN before
       /\ \A k \in DOMAIN before :
            IF before[k].id = lastPatch.id
            THEN /\ DOMAIN bands[k] = DOMAIN before[k] \cup DOMAIN patch
                 /\ \A f \in DOMAIN patch : bands[k][f] = patch[f]
                 /\ \A f \in DOMAIN before[k] \ DOMAIN patch : bands[k][f] = before[k][f]
            ELSE bands[k] = before[k]

\* A two-field patch of band 4 has changed the list.
C2_Witness ==
  /\ PatchedKnownId
  /\ lastPatch.id = 4
  /\ DOMAIN lastPatch.updatedBand = {"frequency", "gain"}
  /\ bands # lastPatch.prevBands
  /\ bands[4].gain = Fx(-6)

\* C3: a patch whose id matches no band leaves the list as it was, field for
\* field.
C3_UnknownIdNoOp ==
  PatchedUnknownId =>
    /\ DOMAIN bands = DOMAIN lastPatch.prevBands
    /\ \A k \in DOMAIN bands :
         /\ DOMAIN bands[k] = DOMAIN lastPatch.prevBands[k]
         /\ \A f \in DOMAIN bands[k] : bands[k][f] = lastPatch.prevBands[k][f]

\* A non-empty patch was applied with the id 9, which no band has.
C3_Witness ==
  /\ PatchedUnknownId
  /\ lastPatch.id = 9
  /\ lastPatch.updatedBand = [gain |-> Fx(12)]
  /\ Len(lastPatch.prevBands) = 7

(***************************************************************************)
(* Properties of the effective-band resolution                             *)
(***************************************************************************)
\* The band lists and master gains the pending frames of the loop close over.
LoopEnvs == {fr.env : fr \in pendingFrames}
AnySolo == \E k \in DOMAIN bands : bands[k].solo

\* C4: while bypass is on, every band the loop consumes is disabled and the
\* master gain it consumes is 0, whatever the stored flags and the user's
\* master gain are, and a tick run under bypass publishes a curve that is 0
\* at every one of its points.
C4_BypassSilence ==
  bypass =>
    /\ pendingFrames # {}
    /\ \A env \in LoopEnvs :
         /\ \A k \in DOMAIN env.bands : ~env.bands[k].enabled
         /\ env.masterGain = 0
    /\ lastOp = "Tick" =>
         /\ Len(frequencyResponseData) = 500
         /\ \A p \in DOMAIN frequencyResponseData : frequencyResponseData[p] = 0

\* A tick has run under bypass with a soloed boost, a cut and a user master
\* gain of 12, and has published a flat curve.
C4_Witness ==
  /\ bypass
  /\ lastOp = "Tick"
  /\ masterGain = Fx(12)
  /\ \E k \in DOMAIN bands : bands[k].solo /\ bands[k].gain = Fx(12)
  /\ \E k \in DOMAIN bands : bands[k].enabled /\ bands[k].gain = Fx(-30)
  /\ Len(frequencyResponseData) = 500
  /\ frequencyResponseData[250] = 0

\* C5: while bypass is off and some band is soloed, every band is enabled
\* for the loop exactly if it is soloed, whatever its stored enabled flag.
C5_SoloOverride ==
  (~bypass /\ AnySolo) =>
    /\ pendingFrames # {}
    /\ \A env \in LoopEnvs :
         /\ DOMAIN env.bands = DOMAIN bands
         /\ \A k \in DOMAIN bands : env.bands[k].enabled = bands[k].solo

\* Exactly one band is soloed, the user has switched it off, and for the
\* loop it is the one enabled band.
C5_Witness ==
  /\ ~bypass
  /\ \E k \in DOMAIN bands :
       /\ bands[k].solo
       /\ ~bands[k].enabled
       /\ \A j \in DOMAIN bands \ {k} : ~bands[j].solo /\ bands[j].enabled
       /\ \A env \in LoopEnvs :
            /\ env.bands[k].enabled
            /\ \A j \in DOMAIN bands \ {k} : ~env.bands[j].enabled
  /\ pendingFrames # {}

\* C6: the resolution leaves the stored bands alone.  While bypass is off and
\* no band is soloed the loop consumes the stored list itself, and a toggle of
\* bypass or of a solo flag changes no stored enabled flag.
C6_RawBandsKept ==
  /\ [](~bypass /\ ~AnySolo => pendingFrames # {} /\ \A env \in LoopEnvs : env.bands = bands)
  /\ [][lastOp' \in {"ToggleBypass", "ToggleSolo"} =>
          /\ DOMAIN bands' = DOMAIN bands
          /\ \A k \in DOMAIN bands : bands'[k].enabled = bands[k].enabled]_vars

\* Bypass has just been switched off again while a band is switched off by
\* the user: the loop consumes the stored list, that band still off.
C6_Witness ==
  /\ lastOp = "ToggleBypass"
  /\ ~bypass
  /\ ~AnySolo
  /\ editsLeft = 0
  /\ \E k \in DOMAIN bands : ~bands[k].enabled
  /\ \A env \in LoopEnvs : env.bands = bands
  /\ pendingFrames # {}

(***************************************************************************)
(* Properties of the curve engine                                          *)
(***************************************************************************)
\* The curve of the state is the result of a call on the bands of the state.
ResponseComputed == lastOp = "calculateOverallFrequencyResponse"
Grid == Len(frequencyResponseData)

\* The curve engine on the grid of the state.
Response(bandSeq, master) ==
  calculateOverallFrequencyResponse(bandSeq, master, Fx(MIN_FREQ), Fx(MAX_FREQ), Grid)

\* What a band contributes at point p: its curve alone, without master gain.
OwnContribution(band, p) == Response(<< band >>, 0)[p]

\* The sum of the contributions of the enabled bands among the first n.
EnabledSum(bandSeq, p) ==
  LET Partial[n \in 0 .. Len(bandSeq)] ==
        IF n = 0 THEN 0
        ELSE Partial[n - 1]
               + (IF bandSeq[n].enabled THEN OwnContribution(bandSeq[n], p) ELSE 0)
  IN Partial[Len(bandSeq)]

Reversed(bandSeq) == [k \in DOMAIN bandSeq |-> bandSeq[Len(bandSeq) + 1 - k]]

\* C7: at every sample the curve is the master gain plus the sum of the
\* contributions of the enabled bands, not clamped; a disabled band
\* contributes 0; disabling one band lowers the curve at every sample by that
\* band's contribution; the curve does not depend on the order of the bands.
C7_Additive ==
  ResponseComputed =>
    /\ \A p \in DOMAIN frequencyResponseData :
         frequencyResponseData[p] = masterGain + EnabledSum(bands, p)
    /\ \A k \in DOMAIN bands :
         LET without == Response([bands EXCEPT ![k].enabled = FALSE], masterGain)
         IN \A p \in DOMAIN frequencyResponseData :
              /\ ~bands[k].enabled => OwnContribution(bands[k], p) = 0
              /\ frequencyResponseData[p] - without[p] = OwnContribution(bands[k], p)
    /\ Response(Reversed(bands), masterGain) = frequencyResponseData

\* The curve of the two full boosts with a master gain of 12 rises above 30,
\* and the two bands contribute different amounts at its first point.
C7_Witness ==
  /\ ResponseComputed
  /\ Grid = 500
  /\ Len(bands) = 2
  /\ bands[1].enabled /\ bands[2].enabled
  /\ frequencyResponseData[1] > Fx(30)
  /\ OwnContribution(bands[1], 1) # OwnContribution(bands[2], 1)
  /\ OwnContribution(bands[2], 1) # 0

\* The bands of a list whose gain is 0 contribute 0 at every sample.
ZeroGainIsSilent(bandSeq) ==
  \A k \in DOMAIN bandSeq :
    bandSeq[k].gain = 0 =>
      \A p \in DOMAIN frequencyResponseData :
        /\ BandContribution(CurrentFreq(p - 1, Fx(MIN_FREQ), Fx(MAX_FREQ), Grid), bandSeq[k]) = 0
        /\ OwnContribution(bandSeq[k], p) = 0

\* C8: a band whose gain is 0 contributes 0 at every sample, whatever its q,
\* frequency and type; a list whose gains are all 0 gives a curve equal to the
\* master gain at every point; the default list with master gain 0 on 500
\* points gives 500 points of gain 0.
C8_ZeroGain ==
  ResponseComputed =>
    /\ ZeroGainIsSilent(bands)
    /\ (\A k \in DOMAIN bands : bands[k].gain = 0) =>
         \A p \in DOMAIN frequencyResponseData : frequencyResponseData[p] = masterGain
    /\ (bands = DEFAULT_BANDS /\ masterGain = 0 /\ Grid = 500) =>
         frequencyResponseData = [p \in 1 .. 500 |-> 0]

\* The curve of two zero-gain bands of different type, q and frequency with a
\* master gain of 12 is 12 at its 500 points.
C8_Witness ==
  /\ ResponseComputed
  /\ Grid = 500
  /\ masterGain = Fx(12)
  /\ Len(bands) = 2
  /\ bands[1].gain = 0 /\ bands[2].gain = 0
  /\ bands[1].type # bands[2].type
  /\ bands[1].q # bands[2].q
  /\ \A p \in 1 .. 500 : frequencyResponseData[p] = Fx(12)

(***************************************************************************)
(* Properties of the spectrum simulator                                    *)
(***************************************************************************)
Ticked == lastOp = "Tick"

\* The target of point p in the last tick: floor, jitter and EQ curve, before
\* smoothing and clamp.
TickTarget(p) ==
  RawTarget(SpectrumGrid[p - 1], RandomAt(lastTick.jitter, p - 1),
            calculateOverallFrequencyResponse(lastTick.env.bands, lastTick.env.masterGain,
                                              Fx(MIN_FREQ), Fx(MAX_FREQ),
                                              NUM_SPECTRUM_POINTS)[p])

\* The points of the last tick that have a previous value.
SmoothedPoints == DOMAIN spectrumData \cap DOMAIN lastTick.previousSpectrum

\* The factor the claim gives: max(0.05, (1 - s) * 0.9) towards a higher
\* target, max(0.01, (1 - s) * 0.2) otherwise, s = clamp(smoothing, 0, 0.98).
ClaimedAlpha(smoothing, target, previous) ==
  LET s == IF smoothing < 0 THEN 0 ELSE IF smoothing > 9800 THEN 9800 ELSE smoothing
      attack == IF (Scale - s) * 9 < 5000 THEN 500 ELSE RoundDiv((Scale - s) * 9, 10)
      decay == IF (Scale - s) * 2 < 1000 THEN 100 ELSE RoundDiv((Scale - s) * 2, 10)
  IN IF target > previous THEN attack ELSE decay

\* previous + (target - previous) * alpha for point p of the last tick.
ClaimedBlend(p) ==
  LET previous == lastTick.previousSpectrum[p]
      target == TickTarget(p)
  IN previous + MulFx(target - previous, ClaimedAlpha(lastTick.env.smoothing, target, previous))

Between(value, a, b) == (a <= value /\ value <= b) \/ (b <= value /\ value <= a)

AlphaFacts ==
  \A smoothing \in SmoothingValues \cup {analyzerSmoothing} :
    LET attack == ClaimedAlpha(smoothing, 1, 0)
        decay == ClaimedAlpha(smoothing, 0, 0)
    IN 0 < decay /\ decay <= attack /\ attack < Scale

\* C9: after any ticks every gain of the published and of the retained
\* spectrum lies in [-100, 30].
C9_SpectrumClamped ==
  /\ \A p \in DOMAIN spectrumData : Fx(-100) <= spectrumData[p] /\ spectrumData[p] <= Fx(30)
  /\ \A p \in DOMAIN prevSpectrumRef :
       Fx(-100) <= prevSpectrumRef[p] /\ prevSpectrumRef[p] <= Fx(30)
  /\ Ticked => Len(spectrumData) = 100

\* A tick has published a point at 30 whose target was above 30.
C9_Witness ==
  /\ Ticked
  /\ \E p \in DOMAIN spectrumData : spectrumData[p] = Fx(30) /\ TickTarget(p) > Fx(30)
  /\ \E p \in DOMAIN spectrumData : spectrumData[p] < 0

\* C10 as stated: at every point with a previous value the new value lies
\* between the previous value and the target and equals
\* previous + (target - previous) * alpha, with the alpha of the claim, which
\* is above 0, below 1 and for the attack not below the decay.
C10_AsStated ==
  Ticked =>
    /\ AlphaFacts
    /\ \A p \in SmoothedPoints :
         /\ Between(spectrumData[p], lastTick.previousSpectrum[p], TickTarget(p))
         /\ spectrumData[p] = ClaimedBlend(p)

\* C10, amended: at every point with a previous value the new value lies
\* between the previous value and the target and equals
\* previous + (target - previous) * alpha held to [-100, 30], with the alpha
\* of the claim, which is above 0, below 1 and for the attack not below the
\* decay.
C10_SmoothedThenClamped ==
  Ticked =>
    /\ AlphaFacts
    /\ \A p \in SmoothedPoints :
         /\ Between(spectrumData[p], lastTick.previousSpectrum[p], TickTarget(p))
         /\ spectrumData[p] =
              (IF ClaimedBlend(p) > Fx(30) THEN Fx(30)
               ELSE IF ClaimedBlend(p) < Fx(-100) THEN Fx(-100)
               ELSE ClaimedBlend(p))

\* A second tick has moved one point up and one point down by the blend,
\* and has held at 30 a point whose blend was above 30.
C10_Witness ==
  /\ Ticked
  /\ SmoothedPoints # {}
  /\ \E p \in SmoothedPoints :
       /\ TickTarget(p) > lastTick.previousSpectrum[p]
       /\ spectrumData[p] = ClaimedBlend(p)
       /\ spectrumData[p] > lastTick.previousSpectrum[p]
  /\ \E p \in SmoothedPoints :
       /\ TickTarget(p) < lastTick.previousSpectrum[p]
       /\ spectrumData[p] = ClaimedBlend(p)
       /\ spectrumData[p] < lastTick.previousSpectrum[p]
  /\ \E p \in SmoothedPoints : ClaimedBlend(p) > Fx(30) /\ spectrumData[p] = Fx(30)

(***************************************************************************)
(* Presets: saving                                                         *)
(***************************************************************************)
\* Bounds of a run that saves a preset and goes on editing.
MaxSaveEdits == 3
MaxSaveTicks == 1

\* The gain slider and the Solo button of band 4, as the calls of
\* handleBandChange they make.
SessionPatches == {[gain |-> Fx(12)], [solo |-> TRUE]}
SessionPatchCall ==
  \E updatedBand \in SessionPatches :
    /\ Gesture("handleBandChange", NoInput)
    /\ handleBandChange(4, updatedBand)
    /\ UNCHANGED << selectedBandId, dragSubject >>

\* A save and what can follow it.  The run starts with the modal open and
\* the name A typed into it, over a store that holds a preset list.
InitSave ==
  \E list \in StoredLists :
    InitApplication(DEFAULT_BANDS, 0, Scale \div 2, FALSE, JSONstringify(list), TRUE, "A",
                    MaxSaveEdits, MaxSaveTicks)
SaveNext == SavePreset \/ SessionPatchCall \/ SetMasterGain \/ ToggleBypass \/ Tick
SpecSave == InitSave /\ [][SaveNext]_vars

\* The presets saved under the name typed in this run.
SavedHere == {k \in DOMAIN presets : presets[k].name = "A"}

\* C11: a saved preset is a snapshot.  savePreset stores the live bands and
\* the live master gain as they are at the save, and no later step (a patch,
\* a master-gain change, a bypass or solo toggle, a tick) changes the bands
\* or the master gain of a preset that the list holds.
C11_SnapshotKept ==
  /\ [](lastOp = "SavePreset" /\ SavedHere # {} =>
          /\ presets[Len(presets)].bands = bands
          /\ presets[Len(presets)].masterGain = masterGain)
  /\ [][\A k \in DOMAIN presets :
          /\ k \in DOMAIN presets'
          /\ presets'[k].bands = presets[k].bands
          /\ presets'[k].masterGain = presets[k].masterGain]_vars

\* A tick runs after a save, a patch and a master-gain change: the preset
\* saved still holds the default bands and the master gain 0, the live
\* values differ from both.
C11_Witness ==
  /\ lastOp = "Tick"
  /\ \E k \in SavedHere :
       /\ presets[k].bands = DEFAULT_BANDS
       /\ presets[k].masterGain = 0
       /\ bands # DEFAULT_BANDS
       /\ masterGain # 0


(***************************************************************************)
(* Presets: loading                                                        *)
(***************************************************************************)
\* Bounds of a run that loads a preset while the loop runs.
MaxLoadEdits == 2
MaxLoadTicks == 2

\* A load and the ticks around it.  The run starts with the modal open over
\* the preset an earlier session left; the live values differ from it.
InitLoad ==
  \E initMasterGain \in {0, Fx(MASTER_GAIN_MAX)} :
    InitApplication(LoudBands, initMasterGain, Scale \div 2, FALSE,
                    JSONstringify(EarlierPresets), TRUE, "", MaxLoadEdits, MaxLoadTicks)
LoadNext == LoadPreset \/ TogglePresets \/ SetMasterGain \/ Tick
SpecLoad == InitLoad /\ [][LoadNext]_vars

\* The values the loop closure of the current render holds.
LiveEnv == LoopEnv(bands, bypass, masterGain, analyzerSmoothing)

\* C12: loadPreset replaces the live bands and the live master gain in one
\* step: after it both are those of the preset.  The frame that is pending
\* closes over the live bands and the live master gain of the same render,
\* and so does every tick: none runs with the bands of a preset and the
\* master gain from before the load, or the other way round.
C12_LoadAtomic ==
  /\ lastOp = "LoadPreset" =>
       /\ bands = lastInput.preset.bands
       /\ masterGain = lastInput.preset.masterGain
  /\ \A fr \in pendingFrames : fr.env = LiveEnv
  /\ lastOp = "Tick" => lastTick.env = LiveEnv

\* A tick has run on the bands and the master gain of the loaded preset,
\* none of which the live state had before the load.
C12_Witness ==
  /\ lastOp = "Tick"
  /\ bands = EarlierPresets[1].bands
  /\ masterGain = EarlierPresets[1].masterGain
  /\ lastTick.env.bands = effectiveBands(EarlierPresets[1].bands, bypass)
  /\ lastTick.env.masterGain = EarlierPresets[1].masterGain
  /\ lastTick.previousSpectrum # << >>


(***************************************************************************)
(* Presets: the start over the store                                       *)
(***************************************************************************)
\* Bound of a run that starts over any store and uses the modal.
MaxStartEdits == 4

InitStart ==
  \E store \in Stores :
    InitApplication(DEFAULT_BANDS, 0, Scale \div 2, FALSE, store, FALSE, "", MaxStartEdits, 0)
StartNext ==
  TogglePresets \/ TypePresetName \/ SavePreset \/ LoadPreset \/ DeletePreset
SpecStart == InitStart /\ [][StartNext]_vars

\* C13 as stated: whatever the store holds, the start raises nothing and the
\* application goes on running with presets a list, which is empty unless
\* the store held the text of a list.
C13_AsStated ==
  /\ mounted
  /\ IsList(presets)


(***************************************************************************)
(* Teardown                                                                *)
(***************************************************************************)
\* Bounds of a run that ends with the teardown of App.
MaxTeardownEdits == 2
MaxTeardownTicks == 2

InitTeardown ==
  \E initBypass \in BOOLEAN :
    InitApplication(LoudBands, 0, Scale \div 2, initBypass, JSONstringify(<< >>), FALSE, "",
                    MaxTeardownEdits, MaxTeardownTicks)
TeardownNext == Tick \/ ToggleBypass \/ SetMasterGain \/ Unmount
SpecTeardown == InitTeardown /\ [][TeardownNext]_vars

\* C14: once App is torn down no frame is pending and no step is a tick,
\* whatever ran before the teardown; a tick that runs does all of its work:
\* it publishes a whole spectrum, retains it, publishes a whole curve and
\* requests the next frame.
C14_NoTickAfterTeardown ==
  /\ [](~mounted => pendingFrames = {})
  /\ [][~mounted => lastOp' # "Tick" /\ ticksLeft' = ticksLeft]_vars
  /\ [](lastOp = "Tick" =>
          /\ Len(spectrumData) = NUM_SPECTRUM_POINTS
          /\ prevSpectrumRef = spectrumData
          /\ Len(frequencyResponseData) = NUM_FREQUENCY_POINTS
          /\ \E fr \in pendingFrames : fr.id = animationFrameRef)

\* The teardown came after a tick and after a render that restarted the
\* loop; ticks were still allowed, and no frame is left.
C14_Witness ==
  /\ lastOp = "Unmount"
  /\ ~mounted
  /\ spectrumData # << >>
  /\ animationFrameRef >= 3
  /\ editsLeft < MaxTeardownEdits
  /\ ticksLeft > 0
  /\ pendingFrames = {}


(***************************************************************************)
(* Presets: the band list over a session                                   *)
(***************************************************************************)
\* Bound of a run of patches, saves, loads and deletes.
MaxPresetEdits == 5

\* The run starts over an empty store, so that every preset it loads was
\* saved in it, with the modal open and the name A typed.
InitPresets ==
  InitApplication(DEFAULT_BANDS, 0, Scale \div 2, FALSE, JSONstringify(<< >>), TRUE, "A",
                  MaxPresetEdits, 0)
PresetsNext ==
  \/ SessionPatchCall
  \/ TypePresetName
  \/ SavePreset
  \/ TogglePresets
  \/ LoadPreset
  \/ DeletePreset
SpecPresets == InitPresets /\ [][PresetsNext]_vars

\* C15: after any patches of the UI, saves, loads of presets saved in the
\* session and deletes, the live list has exactly 7 bands whose ids are
\* pairwise distinct and are the ids 1 .. 7 of the default list, in its
\* order.
C15_SevenBands ==
  /\ Len(bands) = 7
  /\ \A k \in DOMAIN bands : bands[k].id = DEFAULT_BANDS[k].id
  /\ \A j, k \in DOMAIN bands : j # k => bands[j].id # bands[k].id

\* A preset saved in the run is loaded after a patch: the load replaces
\* bands that differ from those of the preset.
C15_Witness ==
  /\ lastOp = "LoadPreset"
  /\ lastInput.preset.name = "A"
  /\ lastInput.prevBands # bands
  /\ bands = lastInput.preset.bands


(***************************************************************************)
(* Properties of the peak                                                  *)
(***************************************************************************)
\* One peak band: boosts and cuts, widths from the narrowest to the widest,
\* among them a width below 0.2, a band switched off and a band of gain 0.
PeakGains == {Fx(12), Fx(-6), Fx(MAX_GAIN), 0}
PeakQs == {MIN_Q, 2 * (Scale \div 10), Scale \div 2, Scale, Fx(4), Fx(MAX_Q)}
PeakBands ==
  {[DEFAULT_BANDS[4] EXCEPT !.gain = gain, !.q = q, !.enabled = enabled] :
     gain \in PeakGains, q \in PeakQs, enabled \in BOOLEAN}

\* The frequency x octaves above the centre f0, for a whole x.
OctaveFreq(f0, x) == IF x >= 0 THEN f0 * 2^x ELSE f0 \div 2^(-x)

\* Frequencies at whole octaves around the centre of the band, and others.
MaxOctaves == 2
PeakFreqs ==
  {OctaveFreq(Fx(1000), x) : x \in -MaxOctaves .. MaxOctaves}
    \cup {Fx(MIN_FREQ), Fx(1500), Fx(MAX_FREQ)}

InitPeak ==
  \E band \in PeakBands :
    InitApplication(<< band >>, 0, Scale \div 2, FALSE, JSONstringify(<< >>), FALSE, "", 0, 0)

\* The body of the point loop of calculateOverallFrequencyResponse at one
\* frequency, for the band list of the state and a master gain of 0.
ComputePoint ==
  \E currentFreq \in PeakFreqs :
    /\ frequencyResponseData' = << TotalGain(bands, 1, currentFreq, 0) >>
    /\ lastOp' = "TotalGain"
    /\ lastInput' = [id |-> NULL, values |-> [currentFreq |-> currentFreq], prevBands |-> bands]
    /\ UNCHANGED << bands, bandsRef, masterGain, analyzerSmoothing, showAnalyzer, spectrumData,
                    selectedBandId, bypass, presets, presetRefs, showPresets, currentPresetName,
                    prevSpectrumRef, animationFrameRef, pendingFrames, localStorage, clock,
                    dragSubject, mounted, lastPatch, lastTick, editsLeft, ticksLeft, memo >>
SpecPeak == InitPeak /\ [][ComputePoint]_vars

\* The band and the frequency of the last ComputePoint, and its result.
PointDone == lastOp = "TotalGain"
PointBand == bands[1]
PointFreq == lastInput.values.currentFreq
PointGain == frequencyResponseData[1]

\* The case of C16: an enabled Peak band with nonzero gain and q >= 0.2.
PeakCase ==
  /\ PointDone
  /\ PointBand.type = PEAK /\ PointBand.enabled /\ PointBand.gain # 0
  /\ PointBand.q >= 2 * (Scale \div 10)

\* gain / (1 + (d / (2 / q))^2).
ClaimedPeak(gain, q, d) ==
  LET ratio == DivFx(d, DivFx(Fx(2), q))
  IN DivFx(gain, Scale + MulFx(ratio, ratio))

\* The octave distance of two frequencies.
OctaveDistance(f, f0) == Abs(Log2(f) - Log2(f0))

\* C16: for an enabled Peak band with nonzero gain and q >= 0.2 the
\* contribution is gain / (1 + (d / (2 / q))^2), d the octave distance from
\* the centre; it is the gain at the centre, it is the same x octaves above
\* and x octaves below the centre, its magnitude never exceeds that of the
\* gain, and for gain 12 and q 4 it is 12 / 17 two octaves from the centre.
C16_PeakShape ==
  PeakCase =>
    /\ PointGain =
         ClaimedPeak(PointBand.gain, PointBand.q, OctaveDistance(PointFreq, PointBand.frequency))
    /\ PointFreq = PointBand.frequency => PointGain = PointBand.gain
    /\ \A x \in 1 .. MaxOctaves :
         /\ OctaveDistance(OctaveFreq(PointBand.frequency, x), PointBand.frequency) = Fx(x)
         /\ OctaveDistance(OctaveFreq(PointBand.frequency, -x), PointBand.frequency) = Fx(x)
         /\ calculatePeakBandGain(OctaveFreq(PointBand.frequency, x), PointBand)
              = calculatePeakBandGain(OctaveFreq(PointBand.frequency, -x), PointBand)
    /\ Abs(PointGain) <= Abs(PointBand.gain)
    /\ ( /\ PointBand.gain = Fx(12) /\ PointBand.q = Fx(4)
         /\ OctaveDistance(PointFreq, PointBand.frequency) = Fx(2) )
       => PointGain = RoundDiv(Fx(12), 17)

\* The band of gain 12 and q 4 has been evaluated two octaves below its
\* centre, where it contributes 12 / 17.
C16_Witness ==
  /\ PeakCase
  /\ PointBand.gain = Fx(12) /\ PointBand.q = Fx(4)
  /\ PointFreq = OctaveFreq(PointBand.frequency, -2)
  /\ PointGain = RoundDiv(Fx(12), 17)


(***************************************************************************)
(* Properties of the dynamics                                              *)
(***************************************************************************)
\* Band lists with dynamic bands.  ClampBands: a small dynamic boost with
\* the widest range, a dynamic band of gain 0, a dynamic cut of range 0 and
\* a dynamic boost that is switched off.  SoloDynamicBands: the dynamic
\* boost is soloed, so the dynamic cut is disabled in the effective set.
ClampBands ==
  [DEFAULT_BANDS EXCEPT ![4].gain = Fx(3), ![4].isDynamic = TRUE, ![4].dynamicRange = Fx(12),
                        ![2].isDynamic = TRUE,
                        ![6].gain = Fx(-6), ![6].isDynamic = TRUE, ![6].dynamicRange = 0,
                        ![7].gain = Fx(12), ![7].isDynamic = TRUE, ![7].enabled = FALSE]
SoloDynamicBands == [DynamicBands EXCEPT ![4].solo = TRUE]
DynamicsBandLists == {DynamicBands, ClampBands, SoloDynamicBands}

MaxDynamicsEdits == 1
MaxDynamicsTicks == 2

InitDynamics ==
  \E initBands \in DynamicsBandLists : \E initMasterGain \in MasterGainValues :
    \E initBypass \in BOOLEAN :
      InitApplication(initBands, initMasterGain, Scale \div 2, initBypass,
                      JSONstringify(EarlierPresets), FALSE, "", MaxDynamicsEdits,
                      MaxDynamicsTicks)
DynamicsNext == Tick \/ ToggleBypass
SpecDynamics == InitDynamics /\ [][DynamicsNext]_vars

\* The last step was a tick; the band list its closure held, the band list
\* after dynamics, and the level and the offset of a band in that tick.
TickDone == lastOp = "Tick"
TickBands == lastTick.env.bands
TickDynamic == lastTick.dynamicBands
TickLevel(band) == DynamicsLevel(spectrumData, SpectrumIndex(band.frequency))
TickOffset(band) ==
  MulFx(Max(0, DivFx(TickLevel(band) + Fx(50), Fx(50))), DynamicsRange(band))

\* C17: for an enabled dynamic band of gain > 0 the level lies in
\* [-100, 30] and the gain after dynamics is max(0, gain - offset), which
\* lies in [0, gain].
C17_BoostCompressed ==
  TickDone =>
    \A k \in DOMAIN TickBands :
      (TickBands[k].enabled /\ TickBands[k].isDynamic /\ TickBands[k].gain > 0) =>
        /\ TickLevel(TickBands[k]) >= Fx(SPECTRUM_FLOOR)
        /\ TickLevel(TickBands[k]) <= Fx(SPECTRUM_CEILING)
        /\ TickDynamic[k].gain = Max(0, TickBands[k].gain - TickOffset(TickBands[k]))
        /\ TickDynamic[k].gain >= 0
        /\ TickDynamic[k].gain <= TickBands[k].gain

\* A tick has met a dynamic boost of 3 dB with an offset above 3 dB and has
\* given it the gain 0.
C17_Witness ==
  /\ TickDone
  /\ \E k \in DOMAIN TickBands :
       /\ TickBands[k].enabled /\ TickBands[k].isDynamic /\ TickBands[k].gain = Fx(3)
       /\ TickOffset(TickBands[k]) > Fx(3)
       /\ TickDynamic[k].gain = 0

\* C18: for an enabled dynamic band of gain < 0 the gain after dynamics is
\* gain - offset, not clamped, and never above the gain of the band.
C18_CutExpanded ==
  TickDone =>
    \A k \in DOMAIN TickBands :
      (TickBands[k].enabled /\ TickBands[k].isDynamic /\ TickBands[k].gain < 0) =>
        /\ TickDynamic[k].gain = TickBands[k].gain - TickOffset(TickBands[k])
        /\ TickDynamic[k].gain <= TickBands[k].gain

\* A tick has met a dynamic cut of -30 dB with a level above -50 dB, and the
\* gain it gave to the curve engine is below -30 dB.
C18_Witness ==
  /\ TickDone
  /\ \E k \in DOMAIN TickBands :
       /\ TickBands[k].enabled /\ TickBands[k].isDynamic
       /\ bands[k].gain = Fx(MIN_GAIN) /\ TickBands[k].gain = Fx(MIN_GAIN)
       /\ TickLevel(TickBands[k]) > Fx(-50)
       /\ TickDynamic[k].gain < Fx(MIN_GAIN)

\* C19: the band list after dynamics has the bands of the effective set in
\* their order; a band that is disabled in the effective set (by itself, by
\* bypass or by the solo of another band), is not dynamic or has gain 0 is
\* in it unchanged, and any other band differs in its gain at most.
C19_OnlyGainOfDynamic ==
  TickDone =>
    /\ TickBands = effectiveBands(bands, bypass)
    /\ DOMAIN TickDynamic = DOMAIN TickBands
    /\ \A k \in DOMAIN TickBands :
         /\ (~TickBands[k].enabled \/ ~TickBands[k].isDynamic \/ TickBands[k].gain = 0)
              => TickDynamic[k] = TickBands[k]
         /\ [TickDynamic[k] EXCEPT !.gain = TickBands[k].gain] = TickBands[k]

\* A tick has changed the gain of one band and has left alone a dynamic
\* band of nonzero gain that is enabled by itself and disabled by the solo
\* of another band.
C19_Witness ==
  /\ TickDone
  /\ \E j \in DOMAIN TickBands :
       /\ bands[j].enabled /\ bands[j].isDynamic /\ bands[j].gain # 0
       /\ ~TickBands[j].enabled
       /\ TickDynamic[j] = TickBands[j]
  /\ ~bypass
  /\ \E k \in DOMAIN TickBands : TickDynamic[k].gain # TickBands[k].gain

\* C20: a tick leaves the band list, the master gain, the bypass flag, the
\* preset list and the store as they are; what it writes is the retained
\* spectrum, the published spectrum and the published curve.
C20_TicksKeepStoredState ==
  [][lastOp' = "Tick" =>
       /\ bands' = bands
       /\ masterGain' = masterGain
       /\ bypass' = bypass
       /\ analyzerSmoothing' = analyzerSmoothing
       /\ presets' = presets
       /\ localStorage' = localStorage
       /\ prevSpectrumRef' = spectrumData'
       /\ frequencyResponseData' =
            calculateOverallFrequencyResponse(lastTick'.dynamicBands, lastTick'.env.masterGain,
                                              Fx(MIN_FREQ), Fx(MAX_FREQ), NUM_FREQUENCY_POINTS)]_vars

\* Two ticks have run with a dynamic band whose gain they adjusted; the
\* band list still holds its stored gain, and the presets are there.
C20_Witness ==
  /\ TickDone
  /\ ticksLeft = 0
  /\ presets = EarlierPresets
  /\ masterGain # 0
  /\ \E k \in DOMAIN bands :
       /\ bands[k].isDynamic
       /\ TickDynamic[k].gain # bands[k].gain
       /\ bands[k].gain = TickBands[k].gain


\* C21 as stated: in every tick the gain after dynamics of an enabled
\* dynamic band is no further from the gain of the band than its
\* dynamicRange.
C21_AsStated ==
  TickDone =>
    \A k \in DOMAIN TickBands :
      (TickBands[k].enabled /\ TickBands[k].isDynamic) =>
        Abs(TickDynamic[k].gain - TickBands[k].gain) <= TickBands[k].dynamicRange


\* The gain after dynamics for a level and a range, as the rule of the
\* dynamics gives it: max(0, gain - offset) for a boost, gain - offset for a
\* cut, with offset = max(0, (level + 50) / 50) * range.
ClaimedDynamicGain(gain, level, range) ==
  LET offset == MulFx(Max(0, DivFx(level + Fx(50), Fx(50))), range)
  IN IF gain > 0 THEN Max(0, gain - offset)
     ELSE IF gain < 0 THEN gain - offset
     ELSE gain

\* C22 as stated: for an enabled dynamic band whose dynamicRange is a value
\* of the Range control, 0 included, the offset of the tick is the intensity
\* times that value.
C22_AsStated ==
  TickDone =>
    \A k \in DOMAIN TickBands :
      ( /\ TickBands[k].enabled /\ TickBands[k].isDynamic
        /\ TickBands[k].dynamicRange >= SliderMin("dynamicRange")
        /\ TickBands[k].dynamicRange <= SliderMax("dynamicRange") ) =>
        TickDynamic[k].gain =
          ClaimedDynamicGain(TickBands[k].gain, TickLevel(TickBands[k]),
                             TickBands[k].dynamicRange)


(***************************************************************************)
(* The dynamics on given levels                                            *)
(***************************************************************************)
\* Levels a sample of the spectrum can have, the bounds of the clamp, the
\* threshold of -50 dB and 0 dB among them.
DynamicsLevels ==
  {Fx(SPECTRUM_FLOOR), Fx(-75), Fx(-50), Fx(-49), Fx(-25), -1, 0, 1, Fx(SPECTRUM_CEILING)}

InitLevels ==
  \E initBands \in DynamicsBandLists : \E initMasterGain \in MasterGainValues :
    \E initBypass \in BOOLEAN :
      InitApplication(initBands, initMasterGain, Scale \div 2, initBypass,
                      JSONstringify(<< >>), FALSE, "", 0, 0)

\* Step 2 of loop() on a spectrum that has one level at all its points: the
\* map over effectiveBands.
CalculateDynamics ==
  \E level \in DynamicsLevels :
    \E newSpectrum \in {[i \in 1 .. NUM_SPECTRUM_POINTS |-> level]} :
      \E dynBands \in {dynamicBands(effectiveBands(bands, bypass), newSpectrum)} :
        /\ spectrumData' = newSpectrum
        /\ lastTick' = [env |-> LoopEnv(bands, bypass, masterGain, analyzerSmoothing),
                        jitter |-> << >>, previousSpectrum |-> << >>,
                        dynamicBands |-> dynBands]
        /\ lastOp' = "dynamicBands"
        /\ UNCHANGED << bands, bandsRef, masterGain, analyzerSmoothing, showAnalyzer,
                        frequencyResponseData, selectedBandId, bypass, presets, presetRefs,
                        showPresets, currentPresetName, prevSpectrumRef, animationFrameRef,
                        pendingFrames, localStorage, clock, dragSubject, mounted, lastInput,
                        lastPatch, editsLeft, ticksLeft, memo >>
SpecLevels == InitLevels /\ [][CalculateDynamics]_vars

\* The level of a band as the rule of the dynamics gives it: the sample at
\* the index of the band, and -100 dB when there is no such sample.
ClaimedLevel(newSpectrum, index) ==
  IF index + 1 \in DOMAIN newSpectrum THEN newSpectrum[index + 1] ELSE Fx(-100)

\* C23 as stated: for an enabled dynamic band the level of the dynamics is
\* the sample of the spectrum at the index of the band whenever there is
\* one, a sample of exactly 0 dB included, and the intensity is
\* max(0, (level + 50) / 50).
C23_AsStated ==
  lastOp = "dynamicBands" =>
    \A k \in DOMAIN TickBands :
      (TickBands[k].enabled /\ TickBands[k].isDynamic) =>
        TickDynamic[k].gain =
          ClaimedDynamicGain(TickBands[k].gain,
                             ClaimedLevel(spectrumData, SpectrumIndex(TickBands[k].frequency)),
                             DynamicsRange(TickBands[k]))


(***************************************************************************)
(* The spectrum index of a band                                            *)
(***************************************************************************)
\* Band frequencies of the domain: its two ends, the defaults and every
\* multiple of 100 Hz up to 6000 Hz.
MaxIndexSteps == 60
IndexFreqs ==
  {Fx(MIN_FREQ), Fx(MAX_FREQ)}
    \cup {DEFAULT_BANDS[k].frequency : k \in DOMAIN DEFAULT_BANDS}
    \cup {Fx(100 * n) : n \in 1 .. MaxIndexSteps}

InitIndex ==
  \E frequency \in IndexFreqs :
    InitApplication(<< [DEFAULT_BANDS[4] EXCEPT !.frequency = frequency, !.isDynamic = TRUE] >>,
                    0, Scale \div 2, FALSE, JSONstringify(<< >>), FALSE, "", 0, 0)

\* The index mapping of step 2 of loop() for the first band of the list.
MapFrequency ==
  \E index \in {SpectrumIndex(bands[1].frequency)} :
    /\ lastOp' = "SpectrumIndex"
    /\ lastInput' = [id |-> bands[1].id, values |-> [index |-> index], prevBands |-> bands]
    /\ UNCHANGED << bands, bandsRef, masterGain, analyzerSmoothing, showAnalyzer,
                    frequencyResponseData, spectrumData, selectedBandId, bypass, presets,
                    presetRefs, showPresets, currentPresetName, prevSpectrumRef,
                    animationFrameRef, pendingFrames, localStorage, clock, dragSubject,
                    mounted, lastPatch, lastTick, editsLeft, ticksLeft, memo >>
SpecIndex == InitIndex /\ [][MapFrequency]_vars

\* The distance on the log-frequency axis between a frequency and sample i
\* of the spectrum, which lies at the fraction i / (numPoints - 1).
LogDistance(frequency, i) ==
  Abs(Log10Fx(frequency)
        - SampleLogFreq(i, Fx(MIN_FREQ), Fx(MAX_FREQ), NUM_SPECTRUM_POINTS))

\* C24 as stated: the index of a band frequency is an index of the spectrum,
\* and no sample of the spectrum is nearer to the frequency on the
\* log-frequency axis than the sample at that index.
C24_AsStated ==
  lastOp = "SpectrumIndex" =>
    /\ lastInput.values.index \in 0 .. NUM_SPECTRUM_POINTS - 1
    /\ \A i \in 0 .. NUM_SPECTRUM_POINTS - 1 :
         LogDistance(bands[1].frequency, lastInput.values.index)
           <= LogDistance(bands[1].frequency, i)


(***************************************************************************)
(* The order of the steps of a tick                                        *)
(***************************************************************************)
\* The curve of a band list under the master gain of the last tick.
TickCurve(tickBands) ==
  calculateOverallFrequencyResponse(tickBands, lastTick.env.masterGain, Fx(MIN_FREQ),
                                    Fx(MAX_FREQ), NUM_FREQUENCY_POINTS)

\* C25: a tick computes the spectrum from the effective bands and the
\* effective master gain of the stored state, the dynamics from that
\* spectrum, and the published curve from the bands after dynamics.
C25_StepsInOrder ==
  TickDone =>
    /\ lastTick.env = LoopEnv(bands, bypass, masterGain, analyzerSmoothing)
    /\ spectrumData =
         generateSimulatedSpectrum(TickBands, lastTick.env.masterGain, Fx(MIN_FREQ),
                                   Fx(MAX_FREQ), NUM_SPECTRUM_POINTS,
                                   lastTick.previousSpectrum, lastTick.env.smoothing,
                                   lastTick.jitter)
    /\ TickDynamic = dynamicBands(TickBands, spectrumData)
    /\ frequencyResponseData = TickCurve(TickDynamic)

\* A second tick has adjusted a gain, and the curve it published is not the
\* curve of the bands before dynamics.
C25_Witness ==
  /\ TickDone
  /\ lastTick.previousSpectrum # << >>
  /\ TickDynamic # TickBands
  /\ frequencyResponseData # TickCurve(TickBands)


(***************************************************************************)
(* The retained spectrum                                                   *)
(***************************************************************************)
MaxMemoryEdits == 1
MaxMemoryTicks == 2

InitMemory ==
  InitApplication(DynamicBands, 0, Scale \div 2, FALSE, JSONstringify(<< >>), FALSE, "",
                  MaxMemoryEdits, MaxMemoryTicks)
MemoryNext ==
  Tick \/ SessionPatchCall \/ ToggleBypass \/ SetSmoothing \/ ToggleAnalyzer
SpecMemory == InitMemory /\ [][MemoryNext]_vars

\* The spectrum of a first tick: at every point the clamped target, no blend.
UnsmoothedSpectrum(env, jitter) ==
  LET eqCurve == calculateOverallFrequencyResponse(env.bands, env.masterGain, Fx(MIN_FREQ),
                                                   Fx(MAX_FREQ), NUM_SPECTRUM_POINTS)
  IN [p \in 1 .. NUM_SPECTRUM_POINTS |->
        ClampSpectrum(RawTarget(SpectrumGrid[p - 1], RandomAt(jitter, p - 1), eqCurve[p]))]

\* C26: the previous spectrum a tick is given is the spectrum the tick
\* before it returned, and nothing when there was no tick before, in which
\* case the tick does not blend; a band patch, a bypass or solo toggle, a
\* smoothing change and an analyzer toggle leave the retained spectrum as
\* it is.
C26_SpectrumThreaded ==
  /\ [](prevSpectrumRef = spectrumData)
  /\ []((TickDone /\ lastTick.previousSpectrum = << >>)
          => spectrumData = UnsmoothedSpectrum(lastTick.env, lastTick.jitter))
  /\ [][ /\ lastOp' = "Tick" =>
              /\ lastTick'.previousSpectrum = spectrumData
              /\ spectrumData' =
                   generateSimulatedSpectrum(lastTick'.env.bands, lastTick'.env.masterGain,
                                             Fx(MIN_FREQ), Fx(MAX_FREQ), NUM_SPECTRUM_POINTS,
                                             spectrumData, lastTick'.env.smoothing,
                                             lastTick'.jitter)
         /\ lastOp' # "Tick" => prevSpectrumRef' = prevSpectrumRef ]_vars

\* A tick under bypass has been given the spectrum of a first tick that ran
\* before bypass was switched on.
C26_Witness ==
  /\ TickDone
  /\ bypass
  /\ editsLeft = 0
  /\ ticksLeft = 0
  /\ \E jitter \in JitterPatterns :
       lastTick.previousSpectrum =
         UnsmoothedSpectrum(LoopEnv(DynamicBands, FALSE, 0, Scale \div 2), jitter)
  /\ spectrumData # lastTick.previousSpectrum


(***************************************************************************)
(* The curve at the ends of the domain                                     *)
(***************************************************************************)
\* One enabled band of each type at the ends and in the middle of the
\* frequency range, at the ends of the gain range, and with q at both ends
\* of its range and on both sides of 0.2.
ExtremeBands ==
  {[DEFAULT_BANDS[k] EXCEPT !.frequency = frequency, !.gain = gain, !.q = q] :
     k \in {1, 4, 7}, frequency \in {Fx(MIN_FREQ), Fx(1000), Fx(MAX_FREQ)},
     gain \in {Fx(MIN_GAIN), Fx(MAX_GAIN)},
     q \in {MIN_Q, 19 * (Scale \div 100), 2 * (Scale \div 10), Fx(MAX_Q)}}

InitExtremes ==
  \E band \in ExtremeBands :
    InitApplication(<< band >>, 0, Scale \div 2, FALSE, JSONstringify(<< >>), FALSE, "", 0, 0)
SpecExtremes == InitExtremes /\ [][ComputeResponse]_vars

\* The grid of the last call of calculateOverallFrequencyResponse.
CurvePoints == DOMAIN frequencyResponseData
CurveFreq(p) ==
  CurrentFreq(p - 1, Fx(MIN_FREQ), Fx(MAX_FREQ), Len(frequencyResponseData))

\* What the arithmetic of the two band functions needs at a frequency: the
\* arguments of Math.log2 are positive, the divisors q, bandwidthFactor *
\* spreadFactor and visualTransitionWidthOctaves are not 0 (1 + attenuation
\* and 1 + Math.exp are at least 1), and the argument of Math.exp is below
\* 709, where Math.exp leaves the finite numbers.
ArithmeticDefined(currentFreq, band) ==
  LET q == Max(Scale \div 10, band.q)
      bandwidthFactor == DivFx(Scale, q)
      visualTransitionWidthOctaves == DivFx(15 * (Scale \div 10), q)
      position == DivFx(Log2(currentFreq) - Log2(band.frequency),
                        visualTransitionWidthOctaves)
  IN /\ currentFreq > 0
     /\ band.frequency > 0
     /\ q > 0
     /\ bandwidthFactor * 2 > 0
     /\ visualTransitionWidthOctaves > 0
     /\ Abs(position * 3) < Fx(709)

\* C27: an enabled Peak band with q below 0.2 contributes 0 at every sample
\* frequency whatever its gain; for a band of the domain the arithmetic of
\* the curve is defined at every sample frequency and every value of the
\* curve is finite: it lies between 0 and the gain of the band.
C27_CurveFinite ==
  lastOp = "calculateOverallFrequencyResponse" =>
    \A p \in CurvePoints :
      /\ ( /\ bands[1].type = PEAK /\ bands[1].enabled
           /\ bands[1].q < 2 * (Scale \div 10) )
         => frequencyResponseData[p] = 0
      /\ ArithmeticDefined(CurveFreq(p), bands[1])
      /\ Abs(frequencyResponseData[p]) <= Abs(bands[1].gain)
      /\ frequencyResponseData[p] = 0 \/ Sgn(frequencyResponseData[p]) = Sgn(bands[1].gain)

\* The curve of a Peak band of gain 30 and q 0.19 has been computed on the
\* grid of 500 points.
C27_Witness ==
  /\ lastOp = "calculateOverallFrequencyResponse"
  /\ Len(frequencyResponseData) = NUM_FREQUENCY_POINTS
  /\ bands[1].type = PEAK /\ bands[1].enabled
  /\ bands[1].gain = Fx(MAX_GAIN)
  /\ bands[1].q = 19 * (Scale \div 100)
  /\ \A p \in CurvePoints : frequencyResponseData[p] = 0


(***************************************************************************)
(* Presets across a restart                                                *)
(***************************************************************************)
MaxRestartEdits == 4

InitRestart ==
  \E list \in StoredLists :
    InitApplication(DEFAULT_BANDS, 0, Scale \div 2, FALSE, JSONstringify(list), TRUE, "A",
                    MaxRestartEdits, 0)
RestartNext ==
  TypePresetName \/ SavePreset \/ DeletePreset \/ TogglePresets \/ Unmount \/ Mount
SpecRestart == InitRestart /\ [][RestartNext]_vars

\* The store holds the text of a preset list.
ValidStore == localStorage.kind = "text" /\ localStorage.parses /\ ~localStorage.falsy
                /\ IsList(JSONparse(localStorage))

MaxFrameEdits == 2
MaxFrameTicks == 2

InitFrames ==
  InitApplication(LoudBands, 0, Scale \div 2, FALSE, JSONstringify(<< >>), FALSE, "",
                  MaxFrameEdits, MaxFrameTicks)
FramesNext == Tick \/ SessionPatchCall \/ ToggleBypass \/ SetMasterGain \/ SetSmoothing
SpecFrames == InitFrames /\ [][FramesNext]_vars

BlurredUnedited(field) ==
  /\ lastOp = "Blur"
  /\ lastInput # NoInput
  /\ field \in DOMAIN lastInput.values
  /\ field \in DOMAIN FieldDomain
  /\ NumberText(lastInput.values[field])
       = DisplayedText(BandById(lastInput.prevBands, lastInput.id), field)

\* C30 as stated: a blur of the number field of frequency, gain or q that
\* holds the text the field displays leaves the frequency, the gain and the
\* q of the band as they were stored.
C30_AsStated ==
  \A field \in SliderFields :
    BlurredUnedited(field) =>
      LET stored == BandById(bands, lastInput.id)
          before == BandById(lastInput.prevBands, lastInput.id)
      IN /\ stored.frequency = before.frequency
         /\ stored.gain = before.gain
         /\ stored.q = before.q

====
